---- MODULE Spec2Model ----
(***************************************************************************)
(* Configuration resolution and validation of the multi-region CDK demo:   *)
(* ConfigurationManager, ConfigurationLoader, ConfigurationValidator       *)
(* (cdk/config/config-manager.ts), the default tables of                   *)
(* cdk/config/regions.ts, the NetworkStack of cdk/stacks/network-stack.ts  *)
(* and the entry point cdk/main.ts.                                        *)
(*                                                                         *)
(* Strings are TLA+ strings; the regular expressions of the source are     *)
(* evaluated character by character on them.  A thrown Error is the        *)
(* one-element sequence <<message>>, normal completion is <<>>.            *)
(***************************************************************************)
EXTENDS Integers, Sequences, FiniteSets, TLC

VARIABLES config, manager, outcome

vars == <<config, manager, outcome>>

----------------------------------------------------------------------------
(* String primitives of the JavaScript runtime used by the source.         *)

Digits == {"0", "1", "2", "3", "4", "5", "6", "7", "8", "9"}

LowerLetters ==
    {"a", "b", "c", "d", "e", "f", "g", "h", "i", "j", "k", "l", "m",
     "n", "o", "p", "q", "r", "s", "t", "u", "v", "w", "x", "y", "z"}

CharAt(s, i) == SubSeq(s, i, i)

\* every character of s is in the class cs (s may be empty)
AllIn(s, cs) == \A i \in 1..Len(s) : CharAt(s, i) \in cs

\* \d+
IsDigits(s) == Len(s) >= 1 /\ AllIn(s, Digits)

\* [a-z]+
IsLower(s) == Len(s) >= 1 /\ AllIn(s, LowerLetters)

\* [a-z0-9]+
IsLowerAlnum(s) == Len(s) >= 1 /\ AllIn(s, LowerLetters \cup Digits)

\* String.prototype.startsWith
StartsWith(s, prefix) ==
    Len(s) >= Len(prefix) /\ SubSeq(s, 1, Len(prefix)) = prefix

RECURSIVE SplitFrom(_, _, _, _)
SplitFrom(s, sep, i, start) ==
    IF i > Len(s) THEN <<SubSeq(s, start, Len(s))>>
    ELSE IF CharAt(s, i) = sep
         THEN <<SubSeq(s, start, i - 1)>> \o SplitFrom(s, sep, i + 1, i + 1)
         ELSE SplitFrom(s, sep, i + 1, start)

\* String.prototype.split on a one-character separator
Split(s, sep) == SplitFrom(s, sep, 1, 1)

RECURSIVE Join(_, _)
\* Array.prototype.join
Join(parts, sep) ==
    IF Len(parts) = 0 THEN ""
    ELSE IF Len(parts) = 1 THEN parts[1]
    ELSE parts[1] \o sep \o Join(Tail(parts), sep)

\* Array.prototype.slice(0, n)
Slice0(parts, n) == SubSeq(parts, 1, IF Len(parts) < n THEN Len(parts) ELSE n)

DigitValue(c) ==
    CASE c = "0" -> 0 [] c = "1" -> 1 [] c = "2" -> 2 [] c = "3" -> 3
      [] c = "4" -> 4 [] c = "5" -> 5 [] c = "6" -> 6 [] c = "7" -> 7
      [] c = "8" -> 8 [] c = "9" -> 9

RECURSIVE ParseDigits(_, _)
ParseDigits(s, acc) ==
    IF Len(s) = 0 THEN acc
    ELSE ParseDigits(Tail(s), 10 * acc + DigitValue(Head(s)))

\* parseInt(s, 10) and Number(s) on a string of decimal digits
ParseInt(s) == ParseDigits(s, 0)

\* the index of the first TRUE of tests, 0 when none: tests[i] is the test
\* of Array.prototype.find / some on the i-th element
FirstIndex(tests) ==
    IF \E i \in 1..Len(tests) : tests[i]
    THEN CHOOSE i \in 1..Len(tests) :
            tests[i] /\ \A j \in 1..(i - 1) : ~tests[j]
    ELSE 0

----------------------------------------------------------------------------
(* The regular expressions of config-manager.ts.  No class of any of them  *)
(* contains the separator the string is split on, so matching the whole    *)
(* string is matching each part between separators.                        *)

\* /^(\d{1,3}\.){3}\d{1,3}\/\d{1,2}$/
CidrRegexTest(cidr) ==
    LET halves == Split(cidr, "/")
    IN  /\ Len(halves) = 2
        /\ LET octets == Split(halves[1], ".")
           IN  /\ Len(octets) = 4
               /\ \A i \in 1..4 : IsDigits(octets[i]) /\ Len(octets[i]) <= 3
        /\ IsDigits(halves[2]) /\ Len(halves[2]) <= 2

\* /^[a-z]{2}-[a-z]+-\d+$/
RegionRegexTest(name) ==
    LET parts == Split(name, "-")
    IN  /\ Len(parts) = 3
        /\ IsLower(parts[1]) /\ Len(parts[1]) = 2
        /\ IsLower(parts[2])
        /\ IsDigits(parts[3])

\* /^[a-z]{2}-[a-z]+-\d+[a-z]$/
ZoneRegexTest(az) ==
    LET parts == Split(az, "-")
    IN  /\ Len(parts) = 3
        /\ IsLower(parts[1]) /\ Len(parts[1]) = 2
        /\ IsLower(parts[2])
        /\ Len(parts[3]) >= 2
        /\ IsDigits(SubSeq(parts[3], 1, Len(parts[3]) - 1))
        /\ CharAt(parts[3], Len(parts[3])) \in LowerLetters

\* /^[a-z]\d+[a-z]*\.[a-z0-9]+$/
InstanceTypeRegexTest(t) ==
    LET parts == Split(t, ".")
    IN  /\ Len(parts) = 2
        /\ IsLowerAlnum(parts[2])
        /\ Len(parts[1]) >= 2
        /\ CharAt(parts[1], 1) \in LowerLetters
        /\ \E k \in 2..Len(parts[1]) :
              /\ IsDigits(SubSeq(parts[1], 2, k))
              /\ AllIn(SubSeq(parts[1], k + 1, Len(parts[1])), LowerLetters)

\* /^db\.[a-z]\d+\.[a-z0-9]+$/
DbInstanceRegexTest(c) ==
    LET parts == Split(c, ".")
    IN  /\ Len(parts) = 3
        /\ parts[1] = "db"
        /\ Len(parts[2]) >= 2
        /\ CharAt(parts[2], 1) \in LowerLetters
        /\ IsDigits(SubSeq(parts[2], 2, Len(parts[2])))
        /\ IsLowerAlnum(parts[3])

\* /^\d+\.\d+(\.\d+)?$/
EngineVersionRegexTest(v) ==
    LET parts == Split(v, ".")
    IN  /\ Len(parts) \in {2, 3}
        /\ \A i \in 1..Len(parts) : IsDigits(parts[i])

----------------------------------------------------------------------------
(* ConfigurationValidator: the stateless validation primitives.            *)

MinPrefix == 8
MaxPrefix == 28
MaxOctet == 255

\* validateCidrBlock without the bounds on the prefix length
validateCidrBlock_AnyPrefix(cidr) ==
    IF ~CidrRegexTest(cidr) THEN FALSE
    ELSE LET octets == Split(Split(cidr, "/")[1], ".")
         IN  \A i \in 1..Len(octets) :
                ParseInt(octets[i]) >= 0 /\ ParseInt(octets[i]) <= MaxOctet

validateCidrBlock(cidr) ==
    IF ~CidrRegexTest(cidr) THEN FALSE
    ELSE LET halves == Split(cidr, "/")
             prefix == ParseInt(halves[2])
             octets == Split(halves[1], ".")
         IN  IF prefix < MinPrefix \/ prefix > MaxPrefix THEN FALSE
             ELSE \A i \in 1..Len(octets) :
                     ParseInt(octets[i]) >= 0 /\ ParseInt(octets[i]) <= MaxOctet

\* cidrBlocksOverlap without the comparison of the networks
cidrBlocksOverlap_EqualOnly(cidr1, cidr2) == cidr1 = cidr2

cidrBlocksOverlap(cidr1, cidr2) ==
    IF cidr1 = cidr2 THEN TRUE
    ELSE LET ip1 == Split(cidr1, "/")[1]
             ip2 == Split(cidr2, "/")[1]
             network1 == Join(Slice0(Split(ip1, "."), 2), ".")
             network2 == Join(Slice0(Split(ip2, "."), 2), ".")
         IN  network1 = network2

validateRegionName(regionName) == RegionRegexTest(regionName)

validateAvailabilityZone(az, regionName) ==
    StartsWith(az, regionName) /\ ZoneRegexTest(az)

validateInstanceType(instanceType) == InstanceTypeRegexTest(instanceType)

validateRdsInstanceClass(instanceClass) == DbInstanceRegexTest(instanceClass)

----------------------------------------------------------------------------
(* regions.ts: the default region table and default deployment            *)
(* configuration.  An optional field (engineVersion?, encrypted?) is a     *)
(* sequence of length 0 (absent) or 1 (present).  The environments object  *)
(* is the sequence of its own keys in Object.keys order, each with its     *)
(* value.                                                                  *)

DefaultIotDatabase ==
    [instanceClass |-> "db.t3.micro", allocatedStorage |-> 20, multiAz |-> TRUE,
     backupRetentionPeriod |-> 7, engineVersion |-> <<"8.0.35">>,
     encrypted |-> <<TRUE>>]

DefaultPaymentDatabase ==
    [instanceClass |-> "db.t3.small", allocatedStorage |-> 100, multiAz |-> TRUE,
     backupRetentionPeriod |-> 30, engineVersion |-> <<"8.0.35">>,
     encrypted |-> <<TRUE>>]

DefaultRegion(name, cidr, payment, demo) ==
    [regionName |-> name,
     cidrBlock |-> cidr,
     availabilityZones |-> <<name \o "a", name \o "b">>,
     deployIoT |-> TRUE,
     deployPayment |-> payment,
     deployDemo |-> demo,
     instanceTypes |-> [iot |-> "t3.medium", payment |-> "t3.large"],
     databaseConfig |-> [iot |-> DefaultIotDatabase,
                         payment |-> DefaultPaymentDatabase]]

DEFAULT_REGION_NAMES == {"us-east-1", "eu-central-1", "ap-southeast-2"}

DEFAULT_REGIONS ==
    [n \in DEFAULT_REGION_NAMES |->
        CASE n = "us-east-1" -> DefaultRegion(n, "10.1.0.0/16", TRUE, TRUE)
          [] n = "eu-central-1" -> DefaultRegion(n, "10.3.0.0/16", FALSE, FALSE)
          [] n = "ap-southeast-2" -> DefaultRegion(n, "10.4.0.0/16", FALSE, FALSE)]

DefaultTags(environment) ==
    [Environment |-> environment, Project |-> "AWS-Multi-Region-CDK-Demo",
     Owner |-> "DevOps-Team", CostCenter |-> "Engineering"]

DevelopmentEnvironment ==
    [regions |-> <<DEFAULT_REGIONS["us-east-1"]>>,
     stackNaming |-> [prefix |-> "MultiRegionDemo", suffix |-> "Dev"],
     tags |-> DefaultTags("Development"),
     settings |-> [enableCdkNag |-> TRUE, enableDetailedMonitoring |-> FALSE,
                   costOptimization |-> [useSpotInstances |-> TRUE,
                                         enableAutoScaling |-> TRUE]]]

ProductionEnvironment ==
    [regions |-> <<DEFAULT_REGIONS["us-east-1"], DEFAULT_REGIONS["eu-central-1"],
                   DEFAULT_REGIONS["ap-southeast-2"]>>,
     stackNaming |-> [prefix |-> "MultiRegionDemo", suffix |-> "Prod"],
     tags |-> DefaultTags("Production"),
     settings |-> [enableCdkNag |-> TRUE, enableDetailedMonitoring |-> TRUE,
                   costOptimization |-> [useSpotInstances |-> FALSE,
                                         enableAutoScaling |-> TRUE]]]

DEFAULT_DEPLOYMENT_CONFIG ==
    [environments |-> <<[name |-> "development", value |-> DevelopmentEnvironment],
                        [name |-> "production", value |-> ProductionEnvironment]>>,
     crossRegionSettings |->
        [enableTransitGateway |-> TRUE,
         paymentApiEndpoint |-> "https://payment-api.us-east-1.amazonaws.com",
         primaryRegion |-> "us-east-1"]]

----------------------------------------------------------------------------
(* Property access on the environments object.                             *)

\* names every object literal inherits from Object.prototype
ObjectPrototypeKeys ==
    {"constructor", "toString", "valueOf", "hasOwnProperty", "isPrototypeOf",
     "propertyIsEnumerable", "toLocaleString", "__proto__"}

\* Object.keys(environments)
ObjectKeys(environments) == [i \in 1..Len(environments) |-> environments[i].name]

HasOwn(environments, name) ==
    \E i \in 1..Len(environments) : environments[i].name = name

\* environments[name] when name is an own key
OwnValue(environments, name) ==
    environments[CHOOSE i \in 1..Len(environments) : environments[i].name = name].value

\* what environments[name] evaluates to: an own value, a member inherited
\* from Object.prototype (truthy, no EnvironmentConfig), or undefined
LookupKind(environments, name) ==
    IF HasOwn(environments, name) THEN "own"
    ELSE IF name \in ObjectPrototypeKeys THEN "inherited"
    ELSE "undefined"

----------------------------------------------------------------------------
(* ConfigurationManager: validation run by the constructor.  Each          *)
(* validate* operator is <<>> when the method returns and <<message>> when *)
(* it throws new Error(message).                                           *)

Ok == <<>>

Throw(message) == <<message>>

\* reading property `property` of the undefined value
TypeErrorOf(property) ==
    Throw("TypeError: Cannot read properties of undefined (reading '"
          \o property \o "')")

\* forEach(x => F(x)): the first throw in order, results[i] being what F
\* does on the i-th element
ForEachThrow(results) ==
    LET i == FirstIndex([j \in 1..Len(results) |-> results[j] # Ok])
    IN  IF i = 0 THEN Ok ELSE results[i]

MinAllocatedStorage == 20
MaxAllocatedStorage == 65536
MinBackupRetention == 0
MaxBackupRetention == 35
MinAvailabilityZones == 2

validateEnvironments(currentEnvironment, deploymentConfig) ==
    IF Len(deploymentConfig.environments) = 0
    THEN Throw("No environment configurations found")
    ELSE IF LookupKind(deploymentConfig.environments, currentEnvironment) = "undefined"
    THEN Throw("Current environment '" \o currentEnvironment
               \o "' not found in configuration")
    ELSE Ok

RegionNamed(regions, name) ==
    FirstIndex([i \in 1..Len(regions) |-> regions[i].regionName = name])

\* !settings[key] for a string property: absent (undefined) or empty
Not(settings, key) == key \notin DOMAIN settings \/ settings[key] = ""

\* validateCrossRegionSettings without the check of the endpoint
validateCrossRegionSettings_NoEndpoint(deploymentConfig) ==
    LET settings == deploymentConfig.crossRegionSettings
        environments == deploymentConfig.environments
    IN  IF Not(settings, "primaryRegion")
        THEN Throw("Primary region must be specified in cross-region settings")
        ELSE IF \A i \in 1..Len(environments) :
                    RegionNamed(environments[i].value.regions,
                                settings.primaryRegion) = 0
        THEN Throw("Primary region '" \o settings.primaryRegion
                   \o "' not found in any environment configuration")
        ELSE Ok

\* validateCrossRegionSettings without the search for the primary region
validateCrossRegionSettings_NoSearch(deploymentConfig) ==
    LET settings == deploymentConfig.crossRegionSettings
    IN  IF Not(settings, "primaryRegion")
        THEN Throw("Primary region must be specified in cross-region settings")
        ELSE IF Not(settings, "paymentApiEndpoint")
        THEN Throw("Payment API endpoint must be specified in cross-region settings")
        ELSE Ok

validateCrossRegionSettings(deploymentConfig) ==
    LET settings == deploymentConfig.crossRegionSettings
        environments == deploymentConfig.environments
        NoRegions(i) == "regions" \notin DOMAIN environments[i].value
        \* the environment .some stops at: one without a regions property,
        \* whose env.regions.some throws, or one with the primary region
        stop == FirstIndex([i \in 1..Len(environments) |->
                              \/ NoRegions(i)
                              \/ RegionNamed(environments[i].value.regions,
                                             settings.primaryRegion) # 0])
        primaryRegionExists == stop # 0
    IN  IF Not(settings, "primaryRegion")
        THEN Throw("Primary region must be specified in cross-region settings")
        ELSE IF Not(settings, "paymentApiEndpoint")
        THEN Throw("Payment API endpoint must be specified in cross-region settings")
        ELSE IF stop # 0 /\ NoRegions(stop)
        THEN TypeErrorOf("some")
        ELSE IF ~primaryRegionExists
        THEN Throw("Primary region '" \o settings.primaryRegion
                   \o "' not found in any environment configuration")
        ELSE Ok

\* validateCidrBlocks without the comparison of the Set size
validateCidrBlocks_FormatOnly(regions) ==
    LET cidrBlocks == [i \in 1..Len(regions) |-> regions[i].cidrBlock]
        BadFormat(cidr) ==
            IF ~CidrRegexTest(cidr)
            THEN Throw("Invalid CIDR block format: " \o cidr) ELSE Ok
    IN  ForEachThrow([i \in 1..Len(cidrBlocks) |-> BadFormat(cidrBlocks[i])])

validateCidrBlocks(regions) ==
    LET cidrBlocks == [i \in 1..Len(regions) |-> regions[i].cidrBlock]
        uniqueCidrBlocks == {cidrBlocks[i] : i \in 1..Len(cidrBlocks)}
        BadFormat(cidr) ==
            IF ~CidrRegexTest(cidr)
            THEN Throw("Invalid CIDR block format: " \o cidr) ELSE Ok
    IN  IF Len(cidrBlocks) # Cardinality(uniqueCidrBlocks)
        THEN Throw("Overlapping CIDR blocks detected in region configuration")
        ELSE ForEachThrow([i \in 1..Len(cidrBlocks) |-> BadFormat(cidrBlocks[i])])

validateInstanceTypes(instanceTypes, regionName) ==
    IF ~InstanceTypeRegexTest(instanceTypes.iot)
    THEN Throw("Invalid IoT instance type format in region " \o regionName
               \o ": " \o instanceTypes.iot)
    ELSE IF ~InstanceTypeRegexTest(instanceTypes.payment)
    THEN Throw("Invalid Payment instance type format in region " \o regionName
               \o ": " \o instanceTypes.payment)
    ELSE Ok

validateDatabaseConfig(dbConfig, type, regionName) ==
    IF ~DbInstanceRegexTest(dbConfig.instanceClass)
    THEN Throw("Invalid " \o type \o " database instance class in region "
               \o regionName \o ": " \o dbConfig.instanceClass)
    ELSE IF \/ dbConfig.allocatedStorage < MinAllocatedStorage
            \/ dbConfig.allocatedStorage > MaxAllocatedStorage
    THEN Throw(type \o " database allocated storage must be between 20 and 65536 GB"
               \o " in region " \o regionName)
    ELSE IF \/ dbConfig.backupRetentionPeriod < MinBackupRetention
            \/ dbConfig.backupRetentionPeriod > MaxBackupRetention
    THEN Throw(type \o " database backup retention period must be between 0 and 35"
               \o " days in region " \o regionName)
    ELSE IF /\ dbConfig.engineVersion # <<>>
            /\ dbConfig.engineVersion[1] # ""
            /\ ~EngineVersionRegexTest(dbConfig.engineVersion[1])
    THEN Throw("Invalid " \o type \o " database engine version format in region "
               \o regionName \o ": " \o dbConfig.engineVersion[1])
    ELSE Ok

validateRegionConfiguration(region) ==
    LET ForeignZone(az) ==
            IF ~StartsWith(az, region.regionName)
            THEN Throw("Availability zone " \o az \o " does not match region "
                       \o region.regionName)
            ELSE Ok
        zones == ForEachThrow([i \in 1..Len(region.availabilityZones) |->
                                 ForeignZone(region.availabilityZones[i])])
        types == validateInstanceTypes(region.instanceTypes, region.regionName)
        iotDb == validateDatabaseConfig(region.databaseConfig.iot, "IoT",
                                        region.regionName)
        paymentDb == validateDatabaseConfig(region.databaseConfig.payment, "Payment",
                                            region.regionName)
    IN  IF ~RegionRegexTest(region.regionName)
        THEN Throw("Invalid region name format: " \o region.regionName)
        ELSE IF Len(region.availabilityZones) < MinAvailabilityZones
        THEN Throw("Region " \o region.regionName
                   \o " must have at least 2 availability zones")
        ELSE IF zones # Ok THEN zones
        ELSE IF types # Ok THEN types
        ELSE IF iotDb # Ok THEN iotDb
        ELSE paymentDb

\* the check of lines 197-203: the first region named primaryRegion, when
\* there is one, must deploy payment
validatePrimaryPayment(regions, primaryRegion) ==
    LET i == RegionNamed(regions, primaryRegion)
    IN  IF i # 0 /\ ~regions[i].deployPayment
        THEN Throw("Primary region '" \o primaryRegion
                   \o "' must have payment deployment enabled")
        ELSE Ok

\* validateEnvironmentConfiguration checking the primary region's payment
\* before the regions' fields
validateEnvironmentConfiguration_PaymentFirst(environment, deploymentConfig) ==
    LET envConfig == OwnValue(deploymentConfig.environments, environment)
        primaryRegion == deploymentConfig.crossRegionSettings.primaryRegion
        cidrs == validateCidrBlocks(envConfig.regions)
        payment == validatePrimaryPayment(envConfig.regions, primaryRegion)
    IN  IF "regions" \notin DOMAIN envConfig \/ Len(envConfig.regions) = 0
        THEN Throw("No regions configured for environment: " \o environment)
        ELSE IF cidrs # Ok THEN cidrs
        ELSE IF payment # Ok THEN payment
        ELSE ForEachThrow([i \in 1..Len(envConfig.regions) |->
                             validateRegionConfiguration(envConfig.regions[i])])

validateEnvironmentConfiguration(environment, deploymentConfig) ==
    LET envConfig == OwnValue(deploymentConfig.environments, environment)
        primaryRegion == deploymentConfig.crossRegionSettings.primaryRegion
        cidrs == validateCidrBlocks(envConfig.regions)
        fields == ForEachThrow([i \in 1..Len(envConfig.regions) |->
                                  validateRegionConfiguration(envConfig.regions[i])])
    IN  IF "regions" \notin DOMAIN envConfig \/ Len(envConfig.regions) = 0
        THEN Throw("No regions configured for environment: " \o environment)
        ELSE IF cidrs # Ok THEN cidrs
        ELSE IF fields # Ok THEN fields
        ELSE validatePrimaryPayment(envConfig.regions, primaryRegion)

validateConfiguration(currentEnvironment, deploymentConfig) ==
    LET presence == validateEnvironments(currentEnvironment, deploymentConfig)
        cross == validateCrossRegionSettings(deploymentConfig)
        keys == ObjectKeys(deploymentConfig.environments)
    IN  IF presence # Ok THEN presence
        ELSE IF cross # Ok THEN cross
        ELSE ForEachThrow([i \in 1..Len(keys) |->
                             validateEnvironmentConfiguration(keys[i],
                                                              deploymentConfig)])

----------------------------------------------------------------------------
(* The constructor and the environment getters.  config is the             *)
(* customConfig argument (<<>> when omitted), manager the constructed      *)
(* ConfigurationManager (<<>> while there is none), outcome what the last  *)
(* call did.  The manager's deploymentConfig field is a reference to the   *)
(* object the caller passed (or to DEFAULT_DEPLOYMENT_CONFIG), not a copy: *)
(* it is read through DeploymentConfigOf.                                  *)

NoOutcome == [op |-> "none"]

\* environment: string = 'development'
DefaultedEnvironment(environment) ==
    IF environment = <<>> THEN "development" ELSE environment[1]

\* customConfig || DEFAULT_DEPLOYMENT_CONFIG
DefaultedConfig(customConfig) ==
    IF customConfig = <<>> THEN DEFAULT_DEPLOYMENT_CONFIG ELSE customConfig[1]

\* this.deploymentConfig
DeploymentConfigOf(customConfig) == DefaultedConfig(customConfig)

\* new ConfigurationManager(environment, config)
Construct(environment) ==
    LET currentEnvironment == DefaultedEnvironment(environment)
        deploymentConfig == DefaultedConfig(config)
        thrown == validateConfiguration(currentEnvironment, deploymentConfig)
    IN  /\ outcome = NoOutcome
        /\ manager' = IF thrown = Ok
                      THEN <<[currentEnvironment |-> currentEnvironment]>>
                      ELSE <<>>
        /\ outcome' = [op |-> "construct", environment |-> currentEnvironment,
                       threw |-> thrown]
        /\ UNCHANGED config

\* environment || this.currentEnvironment
EffectiveEnvironment(environment) ==
    IF environment = <<>> \/ environment[1] = ""
    THEN manager[1].currentEnvironment
    ELSE environment[1]

\* getEnvironmentConfig(environment?): <<>> when it returns, with the kind
\* of value environments[env] is
EnvironmentConfigThrow(environment) ==
    LET env == EffectiveEnvironment(environment)
    IN  IF LookupKind(DeploymentConfigOf(config).environments, env) = "undefined"
        THEN Throw("Environment configuration not found for: " \o env)
        ELSE Ok

\* the outcome of a getter that reads property `field` of the environment
\* configuration ("" for the configuration itself)
GetterOutcome(op, environment, field) ==
    LET env == EffectiveEnvironment(environment)
        environments == DeploymentConfigOf(config).environments
        kind == LookupKind(environments, env)
        thrown == EnvironmentConfigThrow(environment)
    IN  [op |-> op, environment |-> environment, threw |-> thrown,
         kind |-> IF thrown # Ok THEN "none"
                  ELSE IF kind = "inherited"
                  THEN (IF field = "" THEN "inherited" ELSE "undefined")
                  ELSE "own",
         returned |-> IF kind # "own" THEN <<>>
                      ELSE LET c == OwnValue(environments, env)
                           IN  CASE field = "" -> <<c>>
                                 [] field = "regions" -> <<c.regions>>
                                 [] field = "stackNaming" -> <<c.stackNaming>>
                                 [] field = "tags" -> <<c.tags>>]

getEnvironmentConfig(environment) ==
    /\ manager # <<>>
    /\ outcome' = GetterOutcome("getEnvironmentConfig", environment, "")
    /\ UNCHANGED <<config, manager>>

getEnvironmentRegions(environment) ==
    /\ manager # <<>>
    /\ outcome' = GetterOutcome("getEnvironmentRegions", environment, "regions")
    /\ UNCHANGED <<config, manager>>

getStackNaming(environment) ==
    /\ manager # <<>>
    /\ outcome' = GetterOutcome("getStackNaming", environment, "stackNaming")
    /\ UNCHANGED <<config, manager>>

getCommonTags(environment) ==
    /\ manager # <<>>
    /\ outcome' = GetterOutcome("getCommonTags", environment, "tags")
    /\ UNCHANGED <<config, manager>>

\* what this.getEnvironmentConfig(environment).<field>.<member> does: the
\* not-found error, a TypeError when the configuration is an inherited member
\* (its <field> is undefined), nothing otherwise
MemberThrow(environment, member) ==
    LET env == EffectiveEnvironment(environment)
        kind == LookupKind(DeploymentConfigOf(config).environments, env)
    IN  IF kind = "undefined" THEN EnvironmentConfigThrow(environment)
        ELSE IF kind = "inherited" THEN TypeErrorOf(member)
        ELSE Ok

\* this.getEnvironmentConfig(environment) when it is an own value
EnvironmentConfigOf(environment) ==
    OwnValue(DeploymentConfigOf(config).environments,
             EffectiveEnvironment(environment))

\* DEFAULT_REGIONS[regionName]: own entry, inherited member or undefined
DefaultRegionKind(regionName) ==
    IF regionName \in DEFAULT_REGION_NAMES THEN "own"
    ELSE IF regionName \in ObjectPrototypeKeys THEN "inherited"
    ELSE "undefined"

\* getRegionConfig(regionName)
getRegionConfig(regionName) ==
    LET thrown == MemberThrow(<<>>, "find")
        regions == EnvironmentConfigOf(<<>>).regions
        regionInEnv == RegionNamed(regions, regionName)
        defaultKind == DefaultRegionKind(regionName)
    IN  /\ manager # <<>>
        /\ outcome' =
              IF thrown # Ok
              THEN [op |-> "getRegionConfig", regionName |-> regionName,
                    threw |-> thrown, from |-> "none", returned |-> <<>>]
              ELSE IF regionInEnv # 0
              THEN [op |-> "getRegionConfig", regionName |-> regionName,
                    threw |-> Ok, from |-> "environment",
                    returned |-> <<regions[regionInEnv]>>]
              ELSE IF defaultKind = "undefined"
              THEN [op |-> "getRegionConfig", regionName |-> regionName,
                    threw |-> Throw("Region configuration not found for: "
                                    \o regionName),
                    from |-> "none", returned |-> <<>>]
              ELSE IF defaultKind = "inherited"
              THEN [op |-> "getRegionConfig", regionName |-> regionName,
                    threw |-> Ok, from |-> "inherited", returned |-> <<>>]
              ELSE [op |-> "getRegionConfig", regionName |-> regionName,
                    threw |-> Ok, from |-> "default",
                    returned |-> <<DEFAULT_REGIONS[regionName]>>]
        /\ UNCHANGED <<config, manager>>

\* regions.filter(r => r.<flag>), the flags of the regions given in order
FilterKeepingAll(regions, flags) == regions

Filter(regions, flags) ==
    LET kept == {i \in 1..Len(regions) : flags[i]}
        RECURSIVE From(_)
        From(i) == IF i > Len(regions) THEN <<>>
                   ELSE IF i \in kept THEN <<regions[i]>> \o From(i + 1)
                   ELSE From(i + 1)
    IN  From(1)

FlagOf(region, op) ==
    CASE op = "getIoTRegions" -> region.deployIoT
      [] op = "getPaymentRegions" -> region.deployPayment
      [] op = "getDemoRegions" -> region.deployDemo

\* the outcome of this.getEnvironmentRegions(environment).filter(...)
FilterOutcome(op, environment) ==
    LET thrown == MemberThrow(environment, "filter")
        regions == EnvironmentConfigOf(environment).regions
    IN  [op |-> op, environment |-> environment, threw |-> thrown,
         returned |-> IF thrown # Ok THEN <<>>
                      ELSE <<Filter(regions,
                                    [i \in 1..Len(regions) |->
                                        FlagOf(regions[i], op)])>>]

getIoTRegions(environment) ==
    /\ manager # <<>>
    /\ outcome' = FilterOutcome("getIoTRegions", environment)
    /\ UNCHANGED <<config, manager>>

getPaymentRegions(environment) ==
    /\ manager # <<>>
    /\ outcome' = FilterOutcome("getPaymentRegions", environment)
    /\ UNCHANGED <<config, manager>>

getDemoRegions(environment) ==
    /\ manager # <<>>
    /\ outcome' = FilterOutcome("getDemoRegions", environment)
    /\ UNCHANGED <<config, manager>>

\* getPrimaryRegion()
getPrimaryRegion == DeploymentConfigOf(config).crossRegionSettings.primaryRegion

\* enableTransitGateway && regionName === this.getPrimaryRegion()
TransitGatewayIgnoringFlag(enableTransitGateway, regionName) ==
    regionName = getPrimaryRegion

TransitGateway(enableTransitGateway, regionName) ==
    enableTransitGateway /\ regionName = getPrimaryRegion

shouldEnableTransitGateway(regionName) ==
    LET settings == DeploymentConfigOf(config).crossRegionSettings
    IN  /\ manager # <<>>
        /\ outcome' = [op |-> "shouldEnableTransitGateway",
                       regionName |-> regionName,
                       returned |-> TransitGateway(settings.enableTransitGateway,
                                                   regionName)]
        /\ UNCHANGED <<config, manager>>

\* `${naming.prefix}-${stackType}-${regionName}-${naming.suffix}`
StackNameWithoutType(naming, stackType, regionName) ==
    naming.prefix \o "-" \o regionName \o "-" \o naming.suffix

StackName(naming, stackType, regionName) ==
    naming.prefix \o "-" \o stackType \o "-" \o regionName \o "-" \o naming.suffix

generateStackName(stackType, regionName, environment) ==
    LET thrown == MemberThrow(environment, "prefix")
    IN  /\ manager # <<>>
        /\ outcome' = [op |-> "generateStackName", stackType |-> stackType,
                       regionName |-> regionName, environment |-> environment,
                       threw |-> thrown,
                       returned |->
                          IF thrown # Ok THEN <<>>
                          ELSE <<StackName(EnvironmentConfigOf(environment).stackNaming,
                                           stackType, regionName)>>]
        /\ UNCHANGED <<config, manager>>

----------------------------------------------------------------------------
(* Calls of the static ConfigurationValidator methods.  The arguments of   *)
(* the call to come are in outcome, with op "pending".                     *)

CallValidateCidrBlock ==
    /\ outcome.op = "pending"
    /\ outcome' = [op |-> "validateCidrBlock", cidr |-> outcome.cidr1,
                   returned |-> validateCidrBlock(outcome.cidr1)]
    /\ UNCHANGED <<config, manager>>

CallCidrBlocksOverlap ==
    /\ outcome.op = "pending"
    /\ outcome' = [op |-> "cidrBlocksOverlap", cidr1 |-> outcome.cidr1,
                   cidr2 |-> outcome.cidr2,
                   returned |-> cidrBlocksOverlap(outcome.cidr1, outcome.cidr2)]
    /\ UNCHANGED <<config, manager>>

----------------------------------------------------------------------------
(* What the getters hand out.  getDeploymentConfig returns                 *)
(* this.deploymentConfig and getEnvironmentRegions returns                 *)
(* envConfig.regions: the objects the manager itself reads, neither copied *)
(* nor frozen, typed without readonly.  A caller that writes to one writes *)
(* to the configuration the manager serves.                                *)

\* getDeploymentConfig()
getDeploymentConfig ==
    /\ manager # <<>>
    /\ outcome' = [op |-> "getDeploymentConfig", threw |-> Ok,
                   returned |-> <<DeploymentConfigOf(config)>>]
    /\ UNCHANGED <<config, manager>>

\* environments with the regions of environment env replaced
WithRegions(deploymentConfig, env, regions) ==
    [deploymentConfig EXCEPT
        !.environments =
            [i \in 1..Len(deploymentConfig.environments) |->
                IF deploymentConfig.environments[i].name = env
                THEN [deploymentConfig.environments[i]
                         EXCEPT !.value.regions = regions]
                ELSE deploymentConfig.environments[i]]]

\* the caller of getEnvironmentRegions(environment) calls pop() on the array
\* it was given
CallerPopsRegion ==
    /\ manager # <<>> /\ config # <<>>
    /\ outcome.op = "getEnvironmentRegions" /\ outcome.kind = "own"
    /\ LET env == EffectiveEnvironment(outcome.environment)
           regions == OwnValue(config[1].environments, env).regions
       IN  /\ Len(regions) > 0
           /\ config' = <<WithRegions(config[1], env,
                                      SubSeq(regions, 1, Len(regions) - 1))>>
    /\ outcome' = [op |-> "callerWrite", threw |-> Ok]
    /\ UNCHANGED manager

\* the caller of getDeploymentConfig() assigns primaryRegion on the object
\* it was given
CallerSetsPrimaryRegion(regionName) ==
    /\ manager # <<>> /\ config # <<>>
    /\ outcome.op = "getDeploymentConfig"
    /\ config' = <<[config[1] EXCEPT
                       !.crossRegionSettings.primaryRegion = regionName]>>
    /\ outcome' = [op |-> "callerWrite", threw |-> Ok]
    /\ UNCHANGED manager

----------------------------------------------------------------------------
(* ConfigurationLoader.mergeConfigurations.  An override is a record of    *)
(* two optional fields: crossRegionSettings, a record of some of the       *)
(* settings, and environments, a sequence of [name, value] in Object.keys  *)
(* order whose value is <<>> for null and <<fields>> for an object.        *)

\* { ...a, ...b } with b's value for every key of b
ObjectSpread_BaseWins(a, b) ==
    [f \in DOMAIN a \cup DOMAIN b |-> IF f \in DOMAIN a THEN a[f] ELSE b[f]]

ObjectSpread(a, b) ==
    [f \in DOMAIN a \cup DOMAIN b |-> IF f \in DOMAIN b THEN b[f] ELSE a[f]]

\* the empty object literal
EmptyObject == [f \in {} |-> f]

\* merged.environments[env] = { ...merged.environments[env], ...value }: an
\* own key keeps its place, a new key is added last; what the spread reads
\* for a new key (undefined or an inherited member) has no own properties
AssignEnvironment(environments, env, value) ==
    IF HasOwn(environments, env)
    THEN [i \in 1..Len(environments) |->
             IF environments[i].name = env
             THEN [name |-> env,
                   value |-> ObjectSpread(environments[i].value, value)]
             ELSE environments[i]]
    ELSE Append(environments,
                [name |-> env, value |-> ObjectSpread(EmptyObject, value)])

RECURSIVE MergeEnvironments(_, _)
\* Object.keys(overrideConfig.environments).forEach(...) over the entries
\* that are left
MergeEnvironments(environments, entries) ==
    IF entries = <<>> THEN environments
    ELSE LET entry == Head(entries)
         IN  MergeEnvironments(IF entry.value = <<>> THEN environments
                               ELSE AssignEnvironment(environments, entry.name,
                                                      entry.value[1]),
                               Tail(entries))

\* the merged object before its validation
Merged(baseConfig, overrideConfig) ==
    [environments |->
        IF overrideConfig.environments = <<>> THEN baseConfig.environments
        ELSE MergeEnvironments(baseConfig.environments,
                               overrideConfig.environments[1]),
     crossRegionSettings |->
        IF overrideConfig.crossRegionSettings = <<>>
        THEN baseConfig.crossRegionSettings
        ELSE ObjectSpread(baseConfig.crossRegionSettings,
                          overrideConfig.crossRegionSettings[1])]

\* mergeConfigurations returning the merged object without constructing a
\* manager on it
MergeOutcome_Unvalidated(baseConfig, overrideConfig) ==
    [op |-> "mergeConfigurations", override |-> overrideConfig, threw |-> Ok,
     returned |-> <<Merged(baseConfig, overrideConfig)>>]

\* mergeConfigurations(baseConfig, overrideConfig): new
\* ConfigurationManager('development', merged), then return merged
MergeOutcome(baseConfig, overrideConfig) ==
    LET merged == Merged(baseConfig, overrideConfig)
        thrown == validateConfiguration("development", merged)
    IN  [op |-> "mergeConfigurations", override |-> overrideConfig,
         threw |-> thrown,
         returned |-> IF thrown = Ok THEN <<merged>> ELSE <<>>]

\* ConfigurationLoader.mergeConfigurations(config, overrideConfig); the
\* manager it constructs is a local of the call
mergeConfigurations(overrideConfig) ==
    /\ outcome' = MergeOutcome(DeploymentConfigOf(config), overrideConfig)
    /\ UNCHANGED <<config, manager>>

----------------------------------------------------------------------------
(* ConfigurationLoader.loadFromFile.  A file is missing, holds text that   *)
(* is no JSON, or holds the JSON text of a configuration, which JSON.parse *)
(* turns into that configuration.                                          *)

\* `${error}`: the name of the error and its message
ErrorText(thrown) ==
    IF StartsWith(thrown[1], "TypeError: ") THEN thrown[1]
    ELSE "Error: " \o thrown[1]

\* what the try block of loadFromFile throws (Ok when it returns), the
\* loaded configuration validated for environment
TryLoad(filePath, file, environment) ==
    CASE file.kind = "missing" ->
            Throw("ENOENT: no such file or directory, open '" \o filePath \o "'")
      [] file.kind = "malformed" -> <<"SyntaxError: " \o file.detail>>
      [] file.kind = "json" -> validateConfiguration(environment, file.config)

\* loadFromFile validating for the first environment of the file
LoadOutcome_FirstEnvironment(filePath, file) ==
    LET thrown == TryLoad(filePath, file,
                          IF file.kind = "json" /\ Len(file.config.environments) > 0
                          THEN file.config.environments[1].name
                          ELSE "development")
    IN  [op |-> "loadFromFile", filePath |-> filePath, file |-> file,
         threw |-> IF thrown = Ok THEN Ok
                   ELSE Throw("Failed to load configuration from file " \o filePath
                              \o ": "
                              \o (IF file.kind = "malformed" THEN thrown[1]
                                  ELSE ErrorText(thrown))),
         returned |-> IF thrown = Ok THEN <<file.config>> ELSE <<>>]

\* loadFromFile(filePath): new ConfigurationManager('development', config),
\* then return config; whatever is thrown is thrown again with the path
LoadOutcome(filePath, file) ==
    LET thrown == TryLoad(filePath, file, "development")
    IN  [op |-> "loadFromFile", filePath |-> filePath, file |-> file,
         threw |-> IF thrown = Ok THEN Ok
                   ELSE Throw("Failed to load configuration from file " \o filePath
                              \o ": "
                              \o (IF file.kind = "malformed" THEN thrown[1]
                                  ELSE ErrorText(thrown))),
         returned |-> IF thrown = Ok THEN <<file.config>> ELSE <<>>]

\* ConfigurationLoader.loadFromFile(filePath); the path and the file are in
\* outcome, with op "pending"
loadFromFile ==
    /\ outcome.op = "pending"
    /\ outcome' = LoadOutcome(outcome.filePath, outcome.file)
    /\ UNCHANGED <<config, manager>>

----------------------------------------------------------------------------
(* mergeConfigurations on objects with identity.  A heap is the sequence   *)
(* of the objects allocated so far and a reference is an index into it.    *)
(* A configuration object holds the references of its environments map and *)
(* of its crossRegionSettings; an environments map is the sequence of its  *)
(* keys, each with the reference of an environment object; an override has *)
(* each part optionally, and an entry of its map may be null (<<>>).       *)

\* a new object literal: allocated after the objects there are
NewObject(heap, object) ==
    [heap |-> Append(heap, object), ref |-> Len(heap) + 1]

\* baseConfig.environments used as it is: no new object
CopyOf_SameObject(heap, ref) == [heap |-> heap, ref |-> ref]

\* { ...object }: a new object with the properties of the one at ref
CopyOf(heap, ref) == NewObject(heap, heap[ref])

\* the DeploymentConfig value of the configuration object at ref
ConfigAt(heap, ref) ==
    LET environments == heap[heap[ref].environments]
    IN  [environments |->
            [i \in 1..Len(environments) |->
                [name |-> environments[i].name,
                 value |-> heap[environments[i].value]]],
         crossRegionSettings |-> heap[heap[ref].crossRegionSettings]]

\* a configuration literal allocated: its environment objects, its
\* environments map, its crossRegionSettings and the object itself
AllocateConfig(heap, c) ==
    LET n == Len(heap)
        k == Len(c.environments)
        objects == [i \in 1..k |-> c.environments[i].value]
        map == [i \in 1..k |-> [name |-> c.environments[i].name, value |-> n + i]]
    IN  NewObject(heap \o objects \o <<map, c.crossRegionSettings>>,
                  [environments |-> n + k + 1, crossRegionSettings |-> n + k + 2])

RECURSIVE AllocateEntries(_, _, _)
\* the entries of an override's environments map allocated one by one
AllocateEntries(heap, entries, map) ==
    IF entries = <<>> THEN NewObject(heap, map)
    ELSE LET entry == Head(entries)
         IN  IF entry.value = <<>>
             THEN AllocateEntries(heap, Tail(entries),
                                  Append(map, [name |-> entry.name, value |-> <<>>]))
             ELSE AllocateEntries(Append(heap, entry.value[1]), Tail(entries),
                                  Append(map, [name |-> entry.name,
                                               value |-> <<Len(heap) + 1>>]))

\* an override literal allocated
AllocateOverride(heap, o) ==
    LET environments == IF o.environments = <<>> THEN [heap |-> heap, ref |-> 0]
                        ELSE AllocateEntries(heap, o.environments[1], <<>>)
        settings == IF o.crossRegionSettings = <<>>
                    THEN [heap |-> environments.heap, ref |-> 0]
                    ELSE NewObject(environments.heap, o.crossRegionSettings[1])
    IN  NewObject(settings.heap,
                  [environments |-> IF o.environments = <<>> THEN <<>>
                                    ELSE <<environments.ref>>,
                   crossRegionSettings |-> IF o.crossRegionSettings = <<>> THEN <<>>
                                           ELSE <<settings.ref>>])

\* merged.environments[env] = { ...merged.environments[env], ...value }: a
\* new object, written into the map at environments
AssignEnvironmentAt(heap, environments, env, value) ==
    LET map == heap[environments]
        at == FirstIndex([i \in 1..Len(map) |-> map[i].name = env])
        made == NewObject(heap, ObjectSpread(IF at = 0 THEN EmptyObject
                                             ELSE heap[map[at].value],
                                             heap[value]))
    IN  [made.heap EXCEPT
            ![environments] =
                IF at = 0 THEN Append(map, [name |-> env, value |-> made.ref])
                ELSE [map EXCEPT ![at].value = made.ref]]

RECURSIVE MergeEnvironmentsAt(_, _, _)
\* Object.keys(overrideConfig.environments).forEach(...) over the entries
\* that are left
MergeEnvironmentsAt(heap, environments, entries) ==
    IF entries = <<>> THEN heap
    ELSE LET entry == Head(entries)
         IN  MergeEnvironmentsAt(
                 IF entry.value = <<>> THEN heap
                 ELSE AssignEnvironmentAt(heap, environments, entry.name,
                                          entry.value[1]),
                 environments, Tail(entries))

\* the body of mergeConfigurations up to the validation: the heap it leaves
\* and the reference of merged
MergedAt(heap, baseConfig, overrideConfig) ==
    LET environments == CopyOf(heap, heap[baseConfig].environments)
        settings == CopyOf(environments.heap, heap[baseConfig].crossRegionSettings)
        merged == NewObject(settings.heap,
                            [environments |-> environments.ref,
                             crossRegionSettings |-> settings.ref])
        override == heap[overrideConfig]
        crossed ==
            IF override.crossRegionSettings = <<>> THEN merged.heap
            ELSE LET made == NewObject(merged.heap,
                                       ObjectSpread(
                                           merged.heap[settings.ref],
                                           merged.heap[override.crossRegionSettings[1]]))
                 IN  [made.heap EXCEPT ![merged.ref].crossRegionSettings = made.ref]
    IN  [heap |-> IF override.environments = <<>> THEN crossed
                  ELSE MergeEnvironmentsAt(crossed, crossed[merged.ref].environments,
                                           crossed[override.environments[1]]),
         ref |-> merged.ref]

\* ConfigurationLoader.mergeConfigurations(baseConfig, overrideConfig) on the
\* objects of outcome.heap
mergeConfigurationsAt ==
    /\ outcome.op = "pending"
    /\ LET merged == MergedAt(outcome.heap, outcome.base, outcome.override)
           thrown == validateConfiguration("development",
                                           ConfigAt(merged.heap, merged.ref))
       IN  outcome' = [op |-> "mergeConfigurationsAt",
                       before |-> outcome.heap, heap |-> merged.heap,
                       base |-> outcome.base, override |-> outcome.override,
                       overrideConfig |-> outcome.overrideConfig,
                       merged |-> merged.ref, threw |-> thrown,
                       returned |-> IF thrown = Ok THEN <<merged.ref>> ELSE <<>>]
    /\ UNCHANGED <<config, manager>>

----------------------------------------------------------------------------
(* The network stack of cdk/stacks/network-stack.ts.  The constructor      *)
(* declares a Vpc, three security groups and, when asked, a Transit        *)
(* Gateway with its attachment and routes.  A resource is known by its     *)
(* construct id, and a reference to it (vpc.vpcId, subnet.subnetId,        *)
(* transitGateway.ref) is that id.  stackZones is the number of            *)
(* availability zones the stack's environment offers; the address blocks   *)
(* drawn below leave room for the subnets.                                 *)

\* maxAzs: 2
MaxAzs == 2

\* subnetConfiguration
SubnetConfiguration ==
    <<[cidrMask |-> 24, name |-> "Public", subnetType |-> "PUBLIC"],
      [cidrMask |-> 24, name |-> "Private", subnetType |-> "PRIVATE_WITH_EGRESS"]>>

RECURSIVE ToDecimal(_)
\* the decimal text of a number
ToDecimal(n) ==
    IF n < 10 THEN CharAt("0123456789", n + 1)
    ELSE ToDecimal(n \div 10) \o CharAt("0123456789", (n % 10) + 1)

RECURSIVE PowerOfTwo(_)
PowerOfTwo(n) == IF n = 0 THEN 1 ELSE 2 * PowerOfTwo(n - 1)

\* ipAddresses: ec2.IpAddresses.cidr(props.cidrBlock) with cidrMask 24: the
\* number (first three octets) of the first /24 block of the address block
FirstBlock(cidrBlock) ==
    LET halves == Split(cidrBlock, "/")
        octets == Split(halves[1], ".")
        prefix == ParseInt(halves[2])
        block == (ParseInt(octets[1]) * 256 + ParseInt(octets[2])) * 256
                 + ParseInt(octets[3])
        size == PowerOfTwo(24 - prefix)
    IN  block - (block % size)

\* the text of the /24 block of number n
BlockText(n) ==
    ToDecimal(n \div 65536) \o "." \o ToDecimal((n \div 256) % 256) \o "."
    \o ToDecimal(n % 256) \o ".0/24"

\* the Vpc over every zone of the stack
VpcZones_All(stackZones) == stackZones

\* maxAzs: the Vpc spreads over the first maxAzs zones of the stack
VpcZones(stackZones) == IF stackZones < MaxAzs THEN stackZones ELSE MaxAzs

\* new ec2.Vpc(this, 'VPC', {...}): one subnet per subnetConfiguration entry
\* and zone, group by group, each given the next free block of its cidrMask
Vpc(cidrBlock, stackZones) ==
    LET zones == VpcZones(stackZones)
        Subnet(g, z) ==
            LET group == SubnetConfiguration[g]
                id == group.name \o "Subnet" \o ToDecimal(z)
            IN  [id |-> id,
                 subnetType |-> group.subnetType,
                 availabilityZone |-> z,
                 cidrBlock |-> BlockText(FirstBlock(cidrBlock)
                                         + (g - 1) * zones + (z - 1)),
                 mapPublicIpOnLaunch |-> group.subnetType = "PUBLIC",
                 routeTable |-> id \o "RouteTable"]
        GroupSubnets(g) == [z \in 1..zones |-> Subnet(g, z)]
    IN  [id |-> "VPC",
         cidrBlock |-> cidrBlock,
         enableDnsHostnames |-> TRUE,
         enableDnsSupport |-> TRUE,
         natGateways |-> 2,
         publicSubnets |-> GroupSubnets(1),
         privateSubnets |-> GroupSubnets(2)]

\* new ec2.SecurityGroup(this, id, { vpc, description, allowAllOutbound }):
\* allowAllOutbound gives the group the rule that lets all traffic out
SecurityGroup(id, vpc, description, allowAllOutbound) ==
    [id |-> id, vpc |-> vpc.id, description |-> description,
     allowAllOutbound |-> allowAllOutbound,
     ingress |-> <<>>,
     egress |-> IF allowAllOutbound
                THEN <<[peer |-> "0.0.0.0/0", port |-> [protocol |-> "-1"]]>>
                ELSE <<>>]

\* ec2.Peer.anyIpv4()
AnyIpv4 == "0.0.0.0/0"

\* ec2.Port.tcp(port)
Tcp(port) == [protocol |-> "tcp", fromPort |-> port, toPort |-> port]

\* ec2.Port.allTraffic()
AllTraffic == [protocol |-> "-1"]

\* sg.addIngressRule(peer, port, description)
addIngressRule(sg, peer, port, description) ==
    [sg EXCEPT !.ingress = Append(@, [peer |-> peer, port |-> port,
                                      description |-> description])]

\* the three security groups of the constructor, all outbound traffic
\* allowed to each
SecurityGroups_AllOutbound(vpc) ==
    [web |-> SecurityGroup("WebSecurityGroup", vpc,
                "Security group for web tier (ALB, public-facing services)", TRUE),
     app |-> SecurityGroup("AppSecurityGroup", vpc,
                "Security group for application tier (EC2, ECS)", TRUE),
     database |-> SecurityGroup("DatabaseSecurityGroup", vpc,
                "Security group for database tier (RDS, ElastiCache)", TRUE)]

\* the three security groups of the constructor
SecurityGroups(vpc) ==
    [web |-> SecurityGroup("WebSecurityGroup", vpc,
                "Security group for web tier (ALB, public-facing services)", TRUE),
     app |-> SecurityGroup("AppSecurityGroup", vpc,
                "Security group for application tier (EC2, ECS)", TRUE),
     database |-> SecurityGroup("DatabaseSecurityGroup", vpc,
                "Security group for database tier (RDS, ElastiCache)", FALSE)]

\* configureSecurityGroupRules with MySQL opened to the web tier instead of
\* the app tier
configureSecurityGroupRules_WebToDatabase(groups) ==
    LET webSg == groups.web.id
        appSg == groups.app.id
        dbSg == groups.database.id
        web1 == addIngressRule(groups.web, AnyIpv4, Tcp(80),
                               "Allow HTTP traffic from internet")
        web2 == addIngressRule(web1, AnyIpv4, Tcp(443),
                               "Allow HTTPS traffic from internet")
        app1 == addIngressRule(groups.app, webSg, Tcp(8080),
                               "Allow HTTP traffic from web tier")
        app2 == addIngressRule(app1, webSg, Tcp(8443),
                               "Allow HTTPS traffic from web tier")
        app3 == addIngressRule(app2, appSg, AllTraffic,
                               "Allow communication within app tier")
        db1 == addIngressRule(groups.database, webSg, Tcp(3306),
                              "Allow MySQL access from app tier")
        db2 == addIngressRule(db1, appSg, Tcp(6379),
                              "Allow Redis access from app tier")
        db3 == addIngressRule(db2, dbSg, AllTraffic,
                              "Allow communication within database tier")
        app4 == addIngressRule(app3, AnyIpv4, Tcp(8883),
                               "Allow MQTT over TLS for IoT devices")
        app5 == addIngressRule(app4, AnyIpv4, Tcp(443),
                               "Allow HTTPS for IoT device management")
    IN  [web |-> web2, app |-> app5, database |-> db3]

\* configureSecurityGroupRules(webSg, appSg, dbSg)
configureSecurityGroupRules(groups) ==
    LET webSg == groups.web.id
        appSg == groups.app.id
        dbSg == groups.database.id
        web1 == addIngressRule(groups.web, AnyIpv4, Tcp(80),
                               "Allow HTTP traffic from internet")
        web2 == addIngressRule(web1, AnyIpv4, Tcp(443),
                               "Allow HTTPS traffic from internet")
        app1 == addIngressRule(groups.app, webSg, Tcp(8080),
                               "Allow HTTP traffic from web tier")
        app2 == addIngressRule(app1, webSg, Tcp(8443),
                               "Allow HTTPS traffic from web tier")
        app3 == addIngressRule(app2, appSg, AllTraffic,
                               "Allow communication within app tier")
        db1 == addIngressRule(groups.database, appSg, Tcp(3306),
                              "Allow MySQL access from app tier")
        db2 == addIngressRule(db1, appSg, Tcp(6379),
                              "Allow Redis access from app tier")
        db3 == addIngressRule(db2, dbSg, AllTraffic,
                              "Allow communication within database tier")
        app4 == addIngressRule(app3, AnyIpv4, Tcp(8883),
                               "Allow MQTT over TLS for IoT devices")
        app5 == addIngressRule(app4, AnyIpv4, Tcp(443),
                               "Allow HTTPS for IoT device management")
    IN  [web |-> web2, app |-> app5, database |-> db3]

\* createTransitGateway with a route for the first private subnet alone
createTransitGateway_OneRoute(stackName, vpc) ==
    [transitGateway |->
        [id |-> "TransitGateway", amazonSideAsn |-> 64512,
         description |-> "Transit Gateway for multi-region connectivity",
         tags |-> [Name |-> stackName \o "-TransitGateway"]],
     attachments |->
        <<[id |-> "TransitGatewayVpcAttachment",
           transitGatewayId |-> "TransitGateway",
           vpcId |-> vpc.id,
           subnetIds |-> [i \in 1..Len(vpc.privateSubnets) |->
                            vpc.privateSubnets[i].id],
           tags |-> [Name |-> stackName \o "-TGW-VPC-Attachment"]]>>,
     routes |->
        <<[id |-> "TGWRoute0",
           routeTableId |-> vpc.privateSubnets[1].routeTable,
           destinationCidrBlock |-> "10.0.0.0/8",
           transitGatewayId |-> "TransitGateway",
           dependsOn |-> <<"TransitGatewayVpcAttachment">>]>>]

\* createTransitGateway(vpc): the gateway, its attachment to the private
\* subnets and one route per private subnet (forEach index from 0)
createTransitGateway(stackName, vpc) ==
    [transitGateway |->
        [id |-> "TransitGateway", amazonSideAsn |-> 64512,
         description |-> "Transit Gateway for multi-region connectivity",
         tags |-> [Name |-> stackName \o "-TransitGateway"]],
     attachments |->
        <<[id |-> "TransitGatewayVpcAttachment",
           transitGatewayId |-> "TransitGateway",
           vpcId |-> vpc.id,
           subnetIds |-> [i \in 1..Len(vpc.privateSubnets) |->
                            vpc.privateSubnets[i].id],
           tags |-> [Name |-> stackName \o "-TGW-VPC-Attachment"]]>>,
     routes |->
        [i \in 1..Len(vpc.privateSubnets) |->
            [id |-> "TGWRoute" \o ToDecimal(i - 1),
             routeTableId |-> vpc.privateSubnets[i].routeTable,
             destinationCidrBlock |-> "10.0.0.0/8",
             transitGatewayId |-> "TransitGateway",
             dependsOn |-> <<"TransitGatewayVpcAttachment">>]]]

\* createCloudFormationOutputs(): the names of the outputs
createCloudFormationOutputs(outputs) ==
    <<"VpcId", "PublicSubnetIds", "PrivateSubnetIds", "WebSecurityGroupId",
      "AppSecurityGroupId", "DatabaseSecurityGroupId">>
    \o (IF outputs.transitGatewayId # <<>> THEN <<"TransitGatewayId">> ELSE <<>>)

\* new NetworkStack(scope, id, props) in an environment of stackZones zones
NetworkStack(id, props, stackZones) ==
    LET vpc == Vpc(props.cidrBlock, stackZones)
        groups == configureSecurityGroupRules(SecurityGroups(vpc))
        \* if (props.enableTransitGateway)
        enabled == props.enableTransitGateway = <<TRUE>>
        transit == createTransitGateway(id, vpc)
        outputs ==
            [vpcId |-> vpc.id,
             publicSubnetIds |-> [i \in 1..Len(vpc.publicSubnets) |->
                                    vpc.publicSubnets[i].id],
             privateSubnetIds |-> [i \in 1..Len(vpc.privateSubnets) |->
                                     vpc.privateSubnets[i].id],
             securityGroupIds |-> [web |-> groups.web.id, app |-> groups.app.id,
                                   database |-> groups.database.id],
             transitGatewayId |-> IF enabled THEN <<transit.transitGateway.id>>
                                  ELSE <<>>]
    IN  [stackName |-> id,
         vpc |-> vpc,
         securityGroups |-> groups,
         transitGateways |-> IF enabled THEN <<transit.transitGateway>> ELSE <<>>,
         attachments |-> IF enabled THEN transit.attachments ELSE <<>>,
         routes |-> IF enabled THEN transit.routes ELSE <<>>,
         tags |-> ObjectSpread(IF props.tags = <<>> THEN EmptyObject
                               ELSE props.tags[1],
                               [Environment |-> props.environment,
                                Region |-> props.region,
                                StackType |-> "Network"]),
         outputs |-> outputs,
         cfnOutputs |-> createCloudFormationOutputs(outputs)]

\* a NetworkStack built on its own, the way the unit tests build one; the
\* arguments of the call to come are in outcome, with op "pending"
NewNetworkStack ==
    /\ outcome.op = "pending"
    /\ outcome' = [op |-> "NetworkStack", id |-> outcome.id,
                   props |-> outcome.props, stackZones |-> outcome.stackZones,
                   stack |-> NetworkStack(outcome.id, outcome.props,
                                          outcome.stackZones)]
    /\ UNCHANGED <<config, manager>>

----------------------------------------------------------------------------
(* The entry point cdk/main.ts.  It constructs the manager without a       *)
(* custom configuration, so what it reads is DEFAULT_DEPLOYMENT_CONFIG     *)
(* (config is <<>>).  context is the 'environment' context value of the    *)
(* app, account the CDK_DEFAULT_ACCOUNT variable, both optional.           *)

\* app.node.tryGetContext('environment') || 'development'
ContextEnvironment(context) ==
    IF context = <<>> \/ context[1] = "" THEN "development" ELSE context[1]

\* the properties main gives every stack, with the Transit Gateway enabled
\* in each
StackProps_GatewayEverywhere(regionConfig, environment, account) ==
    [region |-> regionConfig.regionName,
     cidrBlock |-> regionConfig.cidrBlock,
     environment |-> environment,
     enableTransitGateway |-> <<TRUE>>,
     tags |-> <<OwnValue(DeploymentConfigOf(config).environments, environment).tags>>,
     env |-> [account |-> account, region |-> regionConfig.regionName]]

\* the properties main gives the stack of a region
StackProps(regionConfig, environment, account) ==
    [region |-> regionConfig.regionName,
     cidrBlock |-> regionConfig.cidrBlock,
     environment |-> environment,
     enableTransitGateway |->
        <<TransitGateway(DeploymentConfigOf(config).crossRegionSettings
                            .enableTransitGateway,
                         regionConfig.regionName)>>,
     tags |-> <<OwnValue(DeploymentConfigOf(config).environments, environment).tags>>,
     env |-> [account |-> account, region |-> regionConfig.regionName]]

\* regions.forEach(regionConfig => new NetworkStack(app, stackName, {...})):
\* the stacks in the order of their creation.  The app holds one construct
\* per id: a second stack of a name ends the loop with an error
MainStacks(regions, environment, account, stackZones) ==
    LET naming == OwnValue(DeploymentConfigOf(config).environments,
                           environment).stackNaming
        Name(i) == StackName(naming, "Network", regions[i].regionName)
        clash == FirstIndex([i \in 1..Len(regions) |->
                               \E j \in 1..(i - 1) : Name(j) = Name(i)])
        made == IF clash = 0 THEN Len(regions) ELSE clash - 1
    IN  [threw |-> IF clash = 0 THEN Ok
                   ELSE Throw("There is already a Construct with name '"
                              \o Name(clash) \o "' in App"),
         stacks |-> [i \in 1..made |->
                       NetworkStack(Name(i),
                                    StackProps(regions[i], environment, account),
                                    stackZones)]]

\* main.ts, from new cdk.App() to the last stack
Main(context, account, stackZones) ==
    LET environment == ContextEnvironment(context)
        deploymentConfig == DeploymentConfigOf(config)
        thrown == validateConfiguration(environment, deploymentConfig)
        kind == LookupKind(deploymentConfig.environments, environment)
        made == MainStacks(OwnValue(deploymentConfig.environments,
                                    environment).regions,
                           environment, account, stackZones)
    IN  /\ outcome = NoOutcome
        /\ manager' = IF thrown = Ok
                      THEN <<[currentEnvironment |-> environment]>>
                      ELSE <<>>
        /\ outcome' = [op |-> "main", environment |-> environment,
                       threw |-> IF thrown # Ok THEN thrown
                                 ELSE IF kind = "inherited"
                                 THEN TypeErrorOf("forEach")
                                 ELSE made.threw,
                       stacks |-> IF thrown # Ok \/ kind = "inherited" THEN <<>>
                                  ELSE made.stacks]
        /\ UNCHANGED config

----------------------------------------------------------------------------
(* Input configurations.  A configuration declares its environments in the *)
(* order development, production, test; each region is an entry of         *)
(* DEFAULT_REGIONS with fields overridden, as the tests of                 *)
(* config-manager.test.ts build them.                                      *)

MaxEnvironments == 2
MaxRegions == 3

TestEnvironment ==
    [regions |-> <<DEFAULT_REGIONS["us-east-1"]>>,
     stackNaming |-> [prefix |-> "Test", suffix |-> "Stack"],
     tags |-> [Environment |-> "Test"],
     settings |-> [enableCdkNag |-> FALSE, enableDetailedMonitoring |-> FALSE,
                   costOptimization |-> [useSpotInstances |-> FALSE,
                                         enableAutoScaling |-> FALSE]]]

EnvironmentTemplates ==
    <<[name |-> "development", value |-> DevelopmentEnvironment],
      [name |-> "production", value |-> ProductionEnvironment],
      [name |-> "test", value |-> TestEnvironment]>>

Min(a, b) == IF a < b THEN a ELSE b

\* {...base, ...overrides}: object spread
Spread(base, overrides) ==
    [f \in DOMAIN base |-> IF f \in DOMAIN overrides THEN overrides[f] ELSE base[f]]

\* { ...DEFAULT_REGIONS[d.base], ...d.with }
RegionOf(d) == Spread(DEFAULT_REGIONS[d.base], d.with)

RECURSIVE RegionLists(_, _, _)
\* the sequences of at most n region descriptions of pool; when distinct,
\* no two of a sequence override the same default region
RegionLists(pool, n, distinct) ==
    IF n = 0 THEN {<<>>}
    ELSE LET shorter == RegionLists(pool, n - 1, distinct)
             Admits(l, r) == ~distinct \/ \A i \in 1..Len(l) : l[i].base # r.base
         IN  shorter \cup
             UNION {{Append(l, r) : r \in {x \in pool : Admits(l, x)}}
                       : l \in {x \in shorter : Len(x) = n - 1}}

RECURSIVE EnvironmentLists(_, _, _, _)
\* the region lists of k environments declaring at most budget regions in all
EnvironmentLists(pool, k, budget, distinct) ==
    IF k = 0 THEN {<<>>}
    ELSE UNION {{<<l>> \o rest : rest \in EnvironmentLists(pool, k - 1,
                                                            budget - Len(l),
                                                            distinct)}
                   : l \in RegionLists(pool, budget, distinct)}

\* the descriptions of the configurations of at most MaxEnvironments
\* environments and MaxRegions regions of pool
Descriptions(pool, settings, distinct) ==
    [environments : UNION {EnvironmentLists(pool, k, MaxRegions, distinct)
                              : k \in 0..Min(MaxEnvironments,
                                             Len(EnvironmentTemplates))},
     crossRegionSettings : settings]

\* the DeploymentConfig literal a description stands for
ConfigOf(d) ==
    [environments |->
        [i \in 1..Len(d.environments) |->
            [name |-> EnvironmentTemplates[i].name,
             value |-> Spread(EnvironmentTemplates[i].value,
                              [regions |-> [j \in 1..Len(d.environments[i]) |->
                                              RegionOf(d.environments[i][j])]])]],
     crossRegionSettings |-> d.crossRegionSettings]

CrossRegionSettings(primaries, endpoints) ==
    [enableTransitGateway : {TRUE}, paymentApiEndpoint : endpoints,
     primaryRegion : primaries]

\* the environment arguments of the constructor and the getters: omitted,
\* declared names, an undeclared name, the empty string and a name every
\* object inherits
EnvironmentArguments ==
    {<<>>, <<"development">>, <<"production">>, <<"staging">>, <<"">>,
     <<"toString">>}

\* the environment arguments of the validation runs: omitted, declared
\* second, undeclared
ActiveEnvironments == {<<>>, <<"production">>, <<"staging">>}

NextConstruct == \E environment \in ActiveEnvironments : Construct(environment)

\* SpecCidr: the regions differ in cidrBlock alone and have distinct names
CidrPool == {"10.1.0.0/16", "10.1.5.0/24", "10.3.0.0/16", "10.1.0.0"}

CidrRegions ==
    {[base |-> n, with |-> [cidrBlock |-> c]] :
        n \in {"us-east-1", "eu-central-1"}, c \in CidrPool}

CidrDescriptions ==
    Descriptions(CidrRegions,
                 CrossRegionSettings({"us-east-1"}, {"https://test.com"}), TRUE)

InitCidr ==
    /\ \E d \in CidrDescriptions : config = <<ConfigOf(d)>>
    /\ manager = <<>>
    /\ outcome = NoOutcome

SpecCidr == InitCidr /\ [][NextConstruct]_vars

\* SpecPrimary: us-east-1 with either address block and either payment flag,
\* and the default eu-central-1; either region may be the primary one
PrimaryRegions ==
    {[base |-> "us-east-1", with |-> [cidrBlock |-> c, deployPayment |-> p]] :
        c \in {"10.1.0.0/16", "10.3.0.0/16"}, p \in BOOLEAN}
    \cup {[base |-> "eu-central-1",
           with |-> [cidrBlock |-> "10.4.0.0/16", deployPayment |-> FALSE]]}

PrimaryDescriptions ==
    Descriptions(PrimaryRegions,
                 CrossRegionSettings({"us-east-1", "eu-central-1"},
                                     {"https://test.com"}), FALSE)

InitPrimary ==
    /\ \E d \in PrimaryDescriptions : config = <<ConfigOf(d)>>
    /\ manager = <<>>
    /\ outcome = NoOutcome

SpecPrimary == InitPrimary /\ [][NextConstruct]_vars

\* SpecFields: one environment of one region, us-east-1 with its name, its
\* address block, its zones and its instance types overridden
NamePool == {"us-east-1", "invalid-region"}

FieldCidrPool ==
    {"10.1.0.0/16", "10.1.0.0/8", "10.1.0.0/28", "10.1.0.0/7", "10.1.0.0/29",
     "256.1.0.0/16", "10.1.0.0"}

ZonePool ==
    {<<"us-east-1a", "us-east-1b">>, <<"us-east-1a">>,
     <<"us-east-1a", "us-east-1">>, <<"us-east-1a", "us-east-1bc">>,
     <<"us-east-1a", "eu-central-1a">>, <<"us-east-1a", "us-east-1b", "us-east-1c">>}

InstanceTypePool ==
    {[iot |-> "t3.medium", payment |-> "t3.large"],
     [iot |-> "invalid", payment |-> "t3.large"],
     [iot |-> "t3.medium", payment |-> "t3"]}

FieldRegions ==
    {[base |-> "us-east-1",
      with |-> [regionName |-> n, cidrBlock |-> c, availabilityZones |-> z,
                instanceTypes |-> t]] :
        n \in NamePool, c \in FieldCidrPool, z \in ZonePool,
        t \in InstanceTypePool}

FieldDescriptions ==
    [environments : {<<<<r>>>> : r \in FieldRegions},
     crossRegionSettings : CrossRegionSettings(NamePool, {"https://test.com"})]

InitFields ==
    /\ \E d \in FieldDescriptions : config = <<ConfigOf(d)>>
    /\ manager = <<>>
    /\ outcome = NoOutcome

SpecFields == InitFields /\ [][NextConstruct]_vars

\* SpecOrder: configurations that break several rules at once.  us-east-1
\* with either payment flag and a good or bad instance type, eu-central-1
\* with its own or us-east-1's address block and a good or bad instance
\* type; the primary region or the endpoint may be empty
OrderRegions ==
    {[base |-> "us-east-1",
      with |-> [cidrBlock |-> "10.1.0.0/16", deployPayment |-> p,
                instanceTypes |-> t]] :
        p \in BOOLEAN,
        t \in {[iot |-> "t3.medium", payment |-> "t3.large"],
               [iot |-> "invalid", payment |-> "t3.large"]}}
    \cup
    {[base |-> "eu-central-1",
      with |-> [cidrBlock |-> c, deployPayment |-> FALSE, instanceTypes |-> t]] :
        c \in {"10.3.0.0/16", "10.1.0.0/16"},
        t \in {[iot |-> "t3.medium", payment |-> "t3.large"],
               [iot |-> "invalid", payment |-> "t3.large"]}}

OrderSettings ==
    {s \in CrossRegionSettings({"us-east-1", ""}, {"https://test.com", ""}) :
        s.primaryRegion # "" \/ s.paymentApiEndpoint # ""}

OrderDescriptions == Descriptions(OrderRegions, OrderSettings, TRUE)

InitOrder ==
    /\ \E d \in OrderDescriptions : config = <<ConfigOf(d)>>
    /\ manager = <<>>
    /\ outcome = NoOutcome

SpecOrder == InitOrder /\ [][NextConstruct]_vars

\* SpecQuery: a manager built without a custom configuration or on one of
\* the default us-east-1 and eu-central-1, then asked for the data of an
\* environment
QueryRegions == {[base |-> n, with |-> [regionName |-> n]] :
                    n \in {"us-east-1", "eu-central-1"}}

QueryDescriptions ==
    Descriptions(QueryRegions,
                 CrossRegionSettings({"us-east-1"}, {"https://test.com"}), TRUE)

InitQuery ==
    /\ \/ config = <<>>
       \/ \E d \in QueryDescriptions : config = <<ConfigOf(d)>>
    /\ manager = <<>>
    /\ outcome = NoOutcome

NextQuery ==
    \E environment \in EnvironmentArguments :
        \/ Construct(environment)
        \/ getEnvironmentConfig(environment)
        \/ getEnvironmentRegions(environment)
        \/ getStackNaming(environment)
        \/ getCommonTags(environment)

SpecQuery == InitQuery /\ [][NextQuery]_vars

\* SpecLookup: a manager built without a custom configuration or on one of
\* us-east-1 with another address block than the default table's,
\* eu-central-1 without IoT and with the demo, and the default
\* ap-southeast-2, with the transit gateway on or off; then asked for
\* regions, the transit gateway and stack names
LookupRegions ==
    {[base |-> "us-east-1", with |-> [cidrBlock |-> "10.9.0.0/16"]],
     [base |-> "eu-central-1", with |-> [deployIoT |-> FALSE, deployDemo |-> TRUE]],
     [base |-> "ap-southeast-2", with |-> [deployDemo |-> FALSE]]}

LookupSettings ==
    [enableTransitGateway : BOOLEAN, paymentApiEndpoint : {"https://test.com"},
     primaryRegion : {"us-east-1"}]

LookupDescriptions == Descriptions(LookupRegions, LookupSettings, TRUE)

\* the environment arguments of the lookups: omitted, declared, undeclared,
\* inherited by every object
LookupEnvironments == {<<>>, <<"production">>, <<"staging">>, <<"toString">>}

\* the region names asked for: of the default table, of none, inherited by
\* every object
LookupRegionNames == {"us-east-1", "eu-central-1", "nowhere-1", "toString"}

StackTypes == {"Network"}

InitLookup ==
    /\ \/ config = <<>>
       \/ \E d \in LookupDescriptions : config = <<ConfigOf(d)>>
    /\ manager = <<>>
    /\ outcome = NoOutcome

NextLookup ==
    \/ \E environment \in {<<>>, <<"production">>, <<"toString">>} :
          Construct(environment)
    \/ \E regionName \in LookupRegionNames :
          \/ getRegionConfig(regionName)
          \/ shouldEnableTransitGateway(regionName)
    \/ \E environment \in LookupEnvironments :
          \/ getIoTRegions(environment)
          \/ getPaymentRegions(environment)
          \/ getDemoRegions(environment)
          \/ \E stackType \in StackTypes :
                \E regionName \in {"us-east-1", "eu-central-1"} :
                    generateStackName(stackType, regionName, environment)

SpecLookup == InitLookup /\ [][NextLookup]_vars

\* SpecMerge: a base of the default us-east-1 and eu-central-1 merged with
\* an override of some settings and some environments: development with
\* other regions, production with another naming or null, a new environment
MergeRegions == {[base |-> n, with |-> [regionName |-> n]] :
                    n \in {"us-east-1", "eu-central-1"}}

MergeDescriptions ==
    Descriptions(MergeRegions,
                 CrossRegionSettings({"us-east-1"}, {"https://test.com"}), TRUE)

OverrideSettings ==
    {<<>>,
     <<[enableTransitGateway |-> FALSE, paymentApiEndpoint |-> "https://test.com",
        primaryRegion |-> "us-east-1"]>>,
     <<[primaryRegion |-> "eu-central-1"]>>,
     <<[paymentApiEndpoint |-> "https://merged.com"]>>,
     <<[paymentApiEndpoint |-> ""]>>}

OverrideEnvironments ==
    {<<>>,
     <<<<[name |-> "development",
          value |-> <<[regions |-> <<DEFAULT_REGIONS["ap-southeast-2"],
                                     DEFAULT_REGIONS["us-east-1"]>>]>>]>>>>,
     <<<<[name |-> "production",
          value |-> <<[stackNaming |-> [prefix |-> "Merged", suffix |-> "Prod"]]>>],
         [name |-> "test", value |-> <<TestEnvironment>>]>>>>,
     <<<<[name |-> "test", value |-> <<TestEnvironment>>],
         [name |-> "development", value |-> <<>>]>>>>}

Overrides == [crossRegionSettings : OverrideSettings,
              environments : OverrideEnvironments]

InitMerge ==
    /\ \/ config = <<>>
       \/ \E d \in MergeDescriptions : config = <<ConfigOf(d)>>
    /\ manager = <<>>
    /\ outcome = NoOutcome

NextMerge ==
    \/ Construct(<<>>)
    \/ \E overrideConfig \in Overrides : mergeConfigurations(overrideConfig)

SpecMerge == InitMerge /\ [][NextMerge]_vars

\* SpecShared: a manager on a custom configuration of the default us-east-1
\* and eu-central-1, its getters, merges on the same configuration, and a
\* caller writing to what getDeploymentConfig or getEnvironmentRegions
\* returned
InitShared ==
    /\ \E d \in MergeDescriptions : config = <<ConfigOf(d)>>
    /\ manager = <<>>
    /\ outcome = NoOutcome

NextShared ==
    \/ \E environment \in {<<>>, <<"production">>} :
          \/ Construct(environment)
          \/ getEnvironmentRegions(environment)
          \/ getEnvironmentConfig(environment)
          \/ getCommonTags(environment)
    \/ getDeploymentConfig
    \/ \E overrideConfig \in {o \in Overrides : o.environments = <<>>} :
          mergeConfigurations(overrideConfig)
    \/ CallerPopsRegion
    \/ \E regionName \in {"eu-central-1", "ap-southeast-2"} :
          CallerSetsPrimaryRegion(regionName)

SpecShared == InitShared /\ [][NextShared]_vars

\* SpecValidator: validateCidrBlock and cidrBlocksOverlap on strings put
\* together from octet and prefix texts, in and out of range, and on
\* strings of other shapes
OctetTexts == {"0", "10", "010", "255", "256", "999", "1000", "", "a"}

PrefixTexts == {"0", "7", "8", "08", "16", "28", "29", "32", "33", "100", ""}

Quads ==
    {<<a, "1", "0", "0">> : a \in OctetTexts}
    \cup {<<"10", b, "0", d>> : b \in OctetTexts \ {"1000", "", "a"},
                                d \in {"0", "255", "256"}}
    \cup {<<"192", "168", c, "0">> : c \in {"1", "256"}}
    \cup {<<"10", "1", "5", "0">>, <<"10", "2", "0", "0">>, <<"172", "16", "0", "0">>}

Dotted(quad) == quad[1] \o "." \o quad[2] \o "." \o quad[3] \o "." \o quad[4]

OtherShapes ==
    {"invalid", "", "10.1.0.0", "10.1.0/16", "10.1.0.0.0/16", "10.1.0.0/16/1",
     "/16", "10.1.0.0/1a", " 10.1.0.0/16", "10.1", "10.1.", "10"}

CidrInputs ==
    {Dotted(q) \o "/" \o "16" : q \in Quads}
    \cup {Dotted(<<"10", "1", "0", "0">>) \o "/" \o p : p \in PrefixTexts}
    \cup {Dotted(<<"256", "1", "0", "0">>) \o "/" \o p : p \in {"7", "8", "29"}}
    \cup {"10.1.5.0/24", "192.168.1.0/24", "172.16.0.0/12"}
    \cup OtherShapes

CidrPartners ==
    {"10.1.0.0/16", "10.1.5.0/24", "10.2.0.0/16", "10.01.0.0/16", "10.1", "10",
     "", "10.1.0.0.0/16"}

InitValidator ==
    /\ \E cidr1 \in CidrInputs, cidr2 \in CidrPartners :
          outcome = [op |-> "pending", cidr1 |-> cidr1, cidr2 |-> cidr2]
    /\ config = <<>>
    /\ manager = <<>>

NextValidator == CallValidateCidrBlock \/ CallCidrBlocksOverlap

SpecValidator == InitValidator /\ [][NextValidator]_vars

\* SpecDatabase: development of the default us-east-1 and of eu-central-1,
\* which deploys no payment and may deploy no IoT, with one field of its iot
\* and of its payment database overridden
DatabasePool(default) ==
    {default}
    \cup {Spread(default, [instanceClass |-> c]) : c \in {"t3.micro", "db.t3"}}
    \cup {Spread(default, [allocatedStorage |-> n]) : n \in {19, 65536, 65537}}
    \cup {Spread(default, [backupRetentionPeriod |-> n]) : n \in {-1, 0, 35, 36}}
    \cup {Spread(default, [engineVersion |-> v]) :
             v \in {<<>>, <<"">>, <<"8.0">>, <<"8">>, <<"latest">>}}

DatabaseRegions ==
    {[base |-> "eu-central-1",
      with |-> [deployIoT |-> i, databaseConfig |-> [iot |-> d, payment |-> p]]] :
        i \in BOOLEAN, d \in DatabasePool(DefaultIotDatabase),
        p \in DatabasePool(DefaultPaymentDatabase)}

DatabaseDescriptions ==
    [environments :
        {<<<<[base |-> "us-east-1", with |-> [regionName |-> "us-east-1"]], r>>>> :
            r \in DatabaseRegions},
     crossRegionSettings : CrossRegionSettings({"us-east-1"}, {"https://test.com"})]

InitDatabase ==
    /\ \E d \in DatabaseDescriptions : config = <<ConfigOf(d)>>
    /\ manager = <<>>
    /\ outcome = NoOutcome

SpecDatabase == InitDatabase /\ [][NextConstruct]_vars

\* SpecSettings: the default us-east-1 and eu-central-1 under cross-region
\* settings whose primaryRegion and paymentApiEndpoint are each absent,
\* empty or set
SettingsRegions ==
    {[base |-> n, with |-> [regionName |-> n]] : n \in {"us-east-1", "eu-central-1"}}

SettingsPool ==
    LET flag == [enableTransitGateway |-> TRUE]
        primaries == {EmptyObject, [primaryRegion |-> ""],
                      [primaryRegion |-> "us-east-1"]}
        endpoints == {EmptyObject, [paymentApiEndpoint |-> ""],
                      [paymentApiEndpoint |-> "https://test.com"]}
    IN  {ObjectSpread(ObjectSpread(flag, p), e) : p \in primaries, e \in endpoints}

SettingsDescriptions == Descriptions(SettingsRegions, SettingsPool, TRUE)

InitSettings ==
    /\ \E d \in SettingsDescriptions : config = <<ConfigOf(d)>>
    /\ manager = <<>>
    /\ outcome = NoOutcome

SpecSettings == InitSettings /\ [][NextConstruct]_vars

\* SpecNetwork: network stacks built from the properties of the unit tests,
\* varied in address block, region, environment, Transit Gateway flag and
\* tags, in an environment of two or three zones; and the stacks main.ts
\* builds from the default configuration
NetworkCidrs ==
    {"10.1.0.0/16", "10.3.0.0/16", "10.4.0.0/16", "172.16.0.0/16", "10.1.16.0/20"}

NetworkProps ==
    [region : {"us-east-1", "eu-central-1", "ap-southeast-2"},
     cidrBlock : NetworkCidrs,
     environment : {"test", "production"},
     enableTransitGateway : {<<>>, <<FALSE>>, <<TRUE>>},
     tags : {<<>>, <<[Environment |-> "Test",
                      Project |-> "AWS-Multi-Region-CDK-Demo"]>>}]

StackZones == {2, 3}

InitNetwork ==
    /\ \/ \E props \in NetworkProps, stackZones \in StackZones :
             outcome = [op |-> "pending", id |-> "TestNetworkStack",
                        props |-> props, stackZones |-> stackZones]
       \/ outcome = NoOutcome
    /\ config = <<>>
    /\ manager = <<>>

\* the 'environment' context of the app: none, empty, declared, undeclared
\* or a name every object inherits
Contexts ==
    {<<>>, <<"">>, <<"development">>, <<"production">>, <<"staging">>,
     <<"toString">>}

Accounts == {<<>>, <<"123456789012">>}

NextNetwork ==
    \/ NewNetworkStack
    \/ \E context \in Contexts, account \in Accounts, stackZones \in StackZones :
          Main(context, account, stackZones)

SpecNetwork == InitNetwork /\ [][NextNetwork]_vars

\* SpecObjects: the bases and overrides of SpecMerge as objects on a heap
InitObjects ==
    /\ \E d \in MergeDescriptions, overrideConfig \in Overrides :
          LET base == AllocateConfig(<<>>, ConfigOf(d))
              override == AllocateOverride(base.heap, overrideConfig)
          IN  /\ config = <<ConfigOf(d)>>
              /\ outcome = [op |-> "pending", heap |-> override.heap,
                            base |-> base.ref, override |-> override.ref,
                            overrideConfig |-> overrideConfig]
    /\ manager = <<>>

NextObjects == mergeConfigurationsAt

SpecObjects == InitObjects /\ [][NextObjects]_vars

\* SpecLoad: configurations that declare any of development, production and
\* test, in that order, with a primary region or none; each as the base of
\* a merge and as the content of a file to load
LoadEnvironments ==
    {<<>>} \cup {<<e>> : e \in 1..3} \cup {<<1, 2>>, <<1, 3>>, <<2, 3>>, <<1, 2, 3>>}

LoadConfigs ==
    {[environments |-> [i \in 1..Len(l) |-> EnvironmentTemplates[l[i]]],
      crossRegionSettings |-> s] :
        l \in LoadEnvironments,
        s \in CrossRegionSettings({"us-east-1", ""}, {"https://test.com"})}

Files ==
    {[kind |-> "missing"]}
    \cup {[kind |-> "malformed", detail |-> d] :
             d \in {"Unexpected end of JSON input",
                    "Unexpected token } in JSON at position 1"}}
    \cup {[kind |-> "json", config |-> c] : c \in LoadConfigs}

InitLoad ==
    /\ manager = <<>>
    /\ \/ /\ \E c \in LoadConfigs : config = <<c>>
          /\ outcome = NoOutcome
       \/ /\ config = <<>>
          /\ \E file \in Files :
                outcome = [op |-> "pending", filePath |-> "config.json",
                           file |-> file]

NextLoad ==
    \/ loadFromFile
    \/ /\ outcome = NoOutcome
       /\ \E overrideConfig \in Overrides : mergeConfigurations(overrideConfig)

SpecLoad == InitLoad /\ [][NextLoad]_vars

----------------------------------------------------------------------------
(* What the claims speak of.                                               *)

\* the configuration the constructor validated
Input == DeploymentConfigOf(config)

Constructed == outcome.op = "construct"

\* construction returned: a manager was obtained
Accepted == Constructed /\ outcome.threw = Ok

\* construction threw: no manager was obtained
Rejected == Constructed /\ outcome.threw # Ok

RegionsOf(i) == Input.environments[i].value.regions

EnvironmentIndexes == 1..Len(Input.environments)

OverlapError == Throw("Overlapping CIDR blocks detected in region configuration")

\* environment i has two regions with the same cidrBlock string
SameCidrIn(i) ==
    \E j, k \in 1..Len(RegionsOf(i)) :
        j # k /\ RegionsOf(i)[j].cidrBlock = RegionsOf(i)[k].cidrBlock

PresencePasses == validateEnvironments(outcome.environment, Input) = Ok

CrossRegionPasses == validateCrossRegionSettings(Input) = Ok

EnvironmentPasses(i) ==
    validateEnvironmentConfiguration(Input.environments[i].name, Input) = Ok

----------------------------------------------------------------------------
\* C1: in every configuration the constructor accepts, no two distinct
\* regions of one environment have cidrBlocks that are identical or
\* network-equal (cidrBlocksOverlap is false for every such pair).
C1_AcceptedCidrsDoNotOverlap ==
    Accepted =>
        \A i \in EnvironmentIndexes :
            \A j, k \in 1..Len(RegionsOf(i)) :
                j # k => ~cidrBlocksOverlap(RegionsOf(i)[j].cidrBlock,
                                            RegionsOf(i)[k].cidrBlock)

\* C2 as stated: a configuration with two regions of one environment
\* sharing a cidrBlock string, which passes the environment-presence and
\* cross-region checks, fails with the overlapping-CIDR error.
C2_SameCidrRaisesOverlap ==
    (Constructed /\ (\E i \in EnvironmentIndexes : SameCidrIn(i))
        /\ PresencePasses /\ CrossRegionPasses)
    => outcome.threw = OverlapError

\* C2 as amended: such a configuration is always rejected, and the error is
\* the overlapping-CIDR error when, besides the presence and cross-region
\* checks, every environment declared before the first one with such a pair
\* passes its own validation.
C2_SameCidrRejected ==
    (Constructed /\ \E i \in EnvironmentIndexes : SameCidrIn(i))
    => /\ outcome.threw # Ok
       /\ \A i \in EnvironmentIndexes :
             (/\ SameCidrIn(i)
              /\ PresencePasses /\ CrossRegionPasses
              /\ \A h \in 1..(i - 1) : EnvironmentPasses(h))
             => outcome.threw = OverlapError

\* C2 witness: the overlapping-CIDR error raised for the second declared
\* environment, after the first one passed
C2_Witness ==
    /\ Rejected /\ outcome.threw = OverlapError
    /\ Len(Input.environments) >= 2
    /\ EnvironmentPasses(1)
    /\ SameCidrIn(2)

----------------------------------------------------------------------------
PrimaryRegion == Input.crossRegionSettings.primaryRegion

\* environment i has a region named as the primary region
PrimaryIn(i) == RegionNamed(RegionsOf(i), PrimaryRegion) # 0

C4_PrimaryDeploysPayment ==
    Accepted =>
        \A i \in EnvironmentIndexes :
            \A j \in 1..Len(RegionsOf(i)) :
                RegionsOf(i)[j].regionName = PrimaryRegion
                    => RegionsOf(i)[j].deployPayment

\* C8: in every accepted configuration no environment has two regions with
\* the same regionName.
C8_RegionNamesUnique ==
    Accepted =>
        \A i \in EnvironmentIndexes :
            \A j, k \in 1..Len(RegionsOf(i)) :
                j # k => RegionsOf(i)[j].regionName # RegionsOf(i)[k].regionName

----------------------------------------------------------------------------
(* The field-level rules of a region, as the validation primitives of      *)
(* ConfigurationValidator state them.                                      *)

NameRuleHolds(r) == validateRegionName(r.regionName)

CidrRuleHolds(r) == validateCidrBlock(r.cidrBlock)

InstanceTypeRulesHold(r) ==
    /\ validateInstanceType(r.instanceTypes.iot)
    /\ validateInstanceType(r.instanceTypes.payment)

ZoneRulesHold(r) ==
    /\ Len(r.availabilityZones) >= 2
    /\ \A a \in 1..Len(r.availabilityZones) :
          validateAvailabilityZone(r.availabilityZones[a], r.regionName)

AllRegions ==
    {RegionsOf(i)[j] : <<i, j>> \in
        {<<i, j>> \in EnvironmentIndexes \X (1..MaxRegions + 1)
            : j <= Len(RegionsOf(i))}}

\* C6: every region of an accepted configuration passes validateRegionName,
\* validateCidrBlock (prefix length in [8,28], octets in [0,255]) and
\* validateInstanceType for both instance types; a region failing one of
\* them makes construction fail.
C6_AcceptedFieldsValid ==
    Accepted =>
        \A r \in AllRegions :
            NameRuleHolds(r) /\ CidrRuleHolds(r) /\ InstanceTypeRulesHold(r)

\* C7: every region of an accepted configuration has at least 2
\* availability zones, each passing validateAvailabilityZone(az, regionName);
\* a region with fewer zones or with a zone failing it is rejected.
C7_AcceptedZonesValid ==
    Accepted => \A r \in AllRegions : ZoneRulesHold(r)

\* environment i breaks invariant 3 (no two cidrBlocks identical or
\* network-equal), 4 (a primary region deploys payment) or 5 (field rules)
BreaksInvariant(i) ==
    \/ \E j, k \in 1..Len(RegionsOf(i)) :
          j # k /\ cidrBlocksOverlap(RegionsOf(i)[j].cidrBlock,
                                     RegionsOf(i)[k].cidrBlock)
    \/ \E j \in 1..Len(RegionsOf(i)) :
          \/ RegionsOf(i)[j].regionName = PrimaryRegion
                /\ ~RegionsOf(i)[j].deployPayment
          \/ ~NameRuleHolds(RegionsOf(i)[j])
          \/ ~CidrRuleHolds(RegionsOf(i)[j])
          \/ ~ZoneRulesHold(RegionsOf(i)[j])
          \/ ~InstanceTypeRulesHold(RegionsOf(i)[j])

\* C9: if any declared environment, the active one or another, violates an
\* invariant, construction fails and no manager is obtained.
C9_AnyViolationRejects ==
    (Constructed /\ \E i \in EnvironmentIndexes : BreaksInvariant(i))
    => (Rejected /\ manager = <<>>)

----------------------------------------------------------------------------
(* The checks of the constructor one by one, for the order they run in.    *)

FirstThrow(results) ==
    IF \A i \in 1..Len(results) : results[i] = Ok THEN Ok
    ELSE results[CHOOSE i \in 1..Len(results) :
                    results[i] # Ok /\ \A j \in 1..(i - 1) : results[j] = Ok]

NoRegionsCheck(i) ==
    IF Len(RegionsOf(i)) = 0
    THEN Throw("No regions configured for environment: "
               \o Input.environments[i].name)
    ELSE Ok

CidrCheck(i) == validateCidrBlocks(RegionsOf(i))

FieldCheck(i) ==
    FirstThrow([j \in 1..Len(RegionsOf(i)) |->
                   validateRegionConfiguration(RegionsOf(i)[j])])

PaymentCheck(i) == validatePrimaryPayment(RegionsOf(i), PrimaryRegion)

PresenceCheck == validateEnvironments(outcome.environment, Input)

CrossRegionCheck == validateCrossRegionSettings(Input)

RECURSIVE Flatten(_)
\* the concatenation of the sequences of lists
Flatten(lists) ==
    IF lists = <<>> THEN <<>> ELSE Head(lists) \o Flatten(Tail(lists))

ClaimedEnvironmentOrder(i) ==
    <<NoRegionsCheck(i), CidrCheck(i), PaymentCheck(i), FieldCheck(i)>>

ActualEnvironmentOrder(i) ==
    <<NoRegionsCheck(i), CidrCheck(i), FieldCheck(i), PaymentCheck(i)>>

----------------------------------------------------------------------------
(* Environment names that do not key into environments.                    *)

Getters ==
    {"getEnvironmentConfig", "getEnvironmentRegions", "getStackNaming",
     "getCommonTags"}

Queried == outcome.op \in Getters

\* what a getter returns for the declared environment name
DataOf(op, name) ==
    LET c == OwnValue(Input.environments, name)
    IN  CASE op = "getEnvironmentConfig" -> c
          [] op = "getEnvironmentRegions" -> c.regions
          [] op = "getStackNaming" -> c.stackNaming
          [] op = "getCommonTags" -> c.tags

NotFound(name) == Throw("Environment configuration not found for: " \o name)

\* C5: an environment name that is not a key of environments is never
\* resolved.  Construction with such an active environment fails; a getter
\* called with such a name fails with 'Environment configuration not found'
\* and returns nothing; a getter called with a key returns exactly that
\* environment's data.
C5_UndeclaredNeverResolved ==
    /\ Constructed /\ ~HasOwn(Input.environments, outcome.environment)
          => outcome.threw # Ok
    /\ Queried /\ outcome.environment # <<>>
          => LET name == outcome.environment[1]
             IN  IF HasOwn(Input.environments, name)
                 THEN /\ outcome.threw = Ok
                      /\ outcome.returned = <<DataOf(outcome.op, name)>>
                 ELSE /\ outcome.threw = NotFound(name)
                      /\ outcome.returned = <<>>

\* C5, the getters alone: a getter called with a name that is not a key
\* fails with 'Environment configuration not found' and returns nothing
C5_GetterOfUndeclaredFails ==
    Queried /\ outcome.environment # <<>>
            /\ ~HasOwn(Input.environments, outcome.environment[1])
        => outcome.threw = NotFound(outcome.environment[1])

----------------------------------------------------------------------------
(* Lookups on a constructed manager.                                       *)

\* the active environment of the manager
ActiveEnvironment == manager[1].currentEnvironment

ActiveDeclared == manager # <<>> /\ HasOwn(Input.environments, ActiveEnvironment)

ActiveRegions == OwnValue(Input.environments, ActiveEnvironment).regions

\* C11: region lookup returns the active environment's record when that
\* environment has a region of the requested name; otherwise the entry of
\* the default-region table for that name; and fails with the not-found
\* error when the name is in neither.
C11_RegionLookup ==
    (outcome.op = "getRegionConfig" /\ ActiveDeclared)
    => LET name == outcome.regionName
           InEnvironment == {i \in 1..Len(ActiveRegions) :
                                ActiveRegions[i].regionName = name}
       IN  IF InEnvironment # {}
           THEN /\ outcome.threw = Ok
                /\ \E i \in InEnvironment : outcome.returned = <<ActiveRegions[i]>>
           ELSE IF name \in DEFAULT_REGION_NAMES
           THEN /\ outcome.threw = Ok
                /\ outcome.returned = <<DEFAULT_REGIONS[name]>>
           ELSE outcome.threw = Throw("Region configuration not found for: "
                                      \o name)

\* the environment a call with the argument outcome.environment names, when
\* that is a declared one: the argument, or the active environment when the
\* argument is omitted
NamesDeclared ==
    IF outcome.environment = <<>> THEN ActiveDeclared
    ELSE HasOwn(Input.environments, outcome.environment[1])

NamedEnvironment ==
    OwnValue(Input.environments,
             IF outcome.environment = <<>> THEN ActiveEnvironment
             ELSE outcome.environment[1])

FilterGetters == {"getIoTRegions", "getPaymentRegions", "getDemoRegions"}

HasFlag(region) ==
    CASE outcome.op = "getIoTRegions" -> region.deployIoT
      [] outcome.op = "getPaymentRegions" -> region.deployPayment
      [] outcome.op = "getDemoRegions" -> region.deployDemo

\* C12: getIoTRegions / getPaymentRegions / getDemoRegions return exactly
\* the regions of the environment whose flag is true, none omitted and none
\* added, in the order of the environment's regions list.
C12_FilteredRegions ==
    (outcome.op \in FilterGetters /\ NamesDeclared)
    => LET regions == NamedEnvironment.regions
           kept == {i \in 1..Len(regions) : HasFlag(regions[i])}
           Rank(i) == Cardinality({j \in kept : j <= i})
       IN  /\ outcome.threw = Ok
           /\ Len(outcome.returned[1]) = Cardinality(kept)
           /\ \A i \in kept : outcome.returned[1][Rank(i)] = regions[i]

\* C12 witness: a filter that dropped a region and kept two, one of them
\* listed after the dropped one
C12_Witness ==
    /\ outcome.op \in FilterGetters /\ NamesDeclared
    /\ Len(outcome.returned[1]) = 2
    /\ Len(NamedEnvironment.regions) = 3
    /\ ~HasFlag(NamedEnvironment.regions[2])

\* C13: shouldEnableTransitGateway(regionName) is true if and only if the
\* enableTransitGateway flag is true and regionName is the primary region.
C13_TransitGateway ==
    outcome.op = "shouldEnableTransitGateway"
    => (outcome.returned <=>
           (/\ Input.crossRegionSettings.enableTransitGateway
            /\ outcome.regionName = Input.crossRegionSettings.primaryRegion))

\* C13 witness: asked for the primary region with the flag off, and for
\* another region with the flag on, the answer is false
C13_Witness ==
    /\ outcome.op = "shouldEnableTransitGateway"
    /\ ~outcome.returned
    /\ outcome.regionName = Input.crossRegionSettings.primaryRegion
    /\ ~Input.crossRegionSettings.enableTransitGateway

\* C14: generateStackName(stackType, regionName, environment) is
\* '{prefix}-{stackType}-{regionName}-{suffix}' with the prefix and suffix of
\* the named environment's stackNaming (the active environment's when none is
\* named); the lookups leave the configuration and the manager as they are,
\* so a repeated call with the same inputs returns the same name.
C14_StackName ==
    /\ [](outcome.op = "generateStackName" /\ NamesDeclared
          => /\ outcome.threw = Ok
             /\ outcome.returned =
                   <<Join(<<NamedEnvironment.stackNaming.prefix,
                            outcome.stackType, outcome.regionName,
                            NamedEnvironment.stackNaming.suffix>>, "-")>>)
    /\ [][manager # <<>> => config' = config /\ manager' = manager]_vars

\* C14 witness: a name generated for a named environment that is not the
\* active one
C14_Witness ==
    /\ outcome.op = "generateStackName" /\ outcome.threw = Ok
    /\ outcome.environment = <<"production">>
    /\ ActiveEnvironment = "development"
    /\ outcome.returned = <<"MultiRegionDemo-Network-eu-central-1-Prod">>

----------------------------------------------------------------------------
(* Merging a base configuration with an override.                          *)

MergeDone == outcome.op = "mergeConfigurations"

MergeReturned == MergeDone /\ outcome.threw = Ok

\* the fields the override gives environment name: none when it does not
\* name it or gives null
OverrideFields(name) ==
    LET entries == IF outcome.override.environments = <<>> THEN <<>>
                   ELSE outcome.override.environments[1]
        given == {i \in 1..Len(entries) :
                     entries[i].name = name /\ entries[i].value # <<>>}
    IN  IF given = {} THEN EmptyObject
        ELSE entries[CHOOSE i \in given : TRUE].value[1]

OverrideNames ==
    LET entries == IF outcome.override.environments = <<>> THEN <<>>
                   ELSE outcome.override.environments[1]
    IN  {entries[i].name : i \in {j \in 1..Len(entries) : entries[j].value # <<>>}}

OverrideCrossRegion ==
    IF outcome.override.crossRegionSettings = <<>> THEN EmptyObject
    ELSE outcome.override.crossRegionSettings[1]

NamesOf(environments) == {environments[i].name : i \in 1..Len(environments)}

\* C15: the configuration mergeConfigurations returns has the override's
\* value for every cross-region key and every environment field the
\* override gives, and the base's value for every cross-region key,
\* environment and environment field it does not give.
C15_MergePrecedence ==
    MergeReturned
    => LET merged == outcome.returned[1]
           cross == OverrideCrossRegion
       IN  /\ DOMAIN merged.crossRegionSettings
                 = DOMAIN Input.crossRegionSettings \cup DOMAIN cross
           /\ \A k \in DOMAIN merged.crossRegionSettings :
                 merged.crossRegionSettings[k]
                    = IF k \in DOMAIN cross THEN cross[k]
                      ELSE Input.crossRegionSettings[k]
           /\ NamesOf(merged.environments)
                 = NamesOf(Input.environments) \cup OverrideNames
           /\ \A name \in NamesOf(merged.environments) :
                 LET fields == OverrideFields(name)
                     base == IF HasOwn(Input.environments, name)
                             THEN OwnValue(Input.environments, name)
                             ELSE EmptyObject
                     value == OwnValue(merged.environments, name)
                 IN  /\ DOMAIN value = DOMAIN base \cup DOMAIN fields
                     /\ \A f \in DOMAIN value :
                           value[f] = IF f \in DOMAIN fields THEN fields[f]
                                      ELSE base[f]

\* C15 witness: a merge that returned with one environment field and one
\* setting taken from the override, the other fields, an environment and the
\* other settings from the base
C15_Witness ==
    /\ MergeReturned
    /\ DOMAIN OverrideCrossRegion = {"paymentApiEndpoint"}
    /\ OverrideCrossRegion.paymentApiEndpoint
          # Input.crossRegionSettings.paymentApiEndpoint
    /\ DOMAIN OverrideFields("development") = {"regions"}
    /\ HasOwn(Input.environments, "production")
    /\ "production" \notin OverrideNames

\* C16: mergeConfigurations returns a configuration only if the merged
\* result passes the validation the constructor runs (with 'development'
\* as the active environment); when that validation fails it throws its
\* error and returns nothing.
C16_MergeValidated ==
    MergeDone
    => LET thrown == validateConfiguration("development",
                                           Merged(Input, outcome.override))
       IN  /\ outcome.threw = thrown
           /\ outcome.returned # <<>>
                 => /\ thrown = Ok
                    /\ validateConfiguration("development",
                                             outcome.returned[1]) = Ok
           /\ thrown # Ok => outcome.returned = <<>>

\* C16 witness: a valid base whose merge with an override that only changes
\* the primary region to one that does not deploy payment is rejected
C16_Witness ==
    /\ MergeDone /\ outcome.threw # Ok /\ outcome.returned = <<>>
    /\ validateConfiguration("development", Input) = Ok
    /\ outcome.override.environments = <<>>
    /\ outcome.override.crossRegionSettings = <<[primaryRegion |-> "eu-central-1"]>>
    /\ outcome.threw = Throw("Primary region 'eu-central-1' must have payment "
                             \o "deployment enabled")

----------------------------------------------------------------------------
(* The configuration a constructed manager serves.                         *)

\* C17: once a manager has been constructed, the invariants checked at
\* its construction hold for the configuration it serves in every later
\* state, whatever queries, merges and caller uses of the returned values
\* follow.
C17_ServedConfigurationStaysValid ==
    manager # <<>> => validateConfiguration(ActiveEnvironment, Input) = Ok

\* C17 for the program's own operations: no step of the constructor, a
\* getter or a merge changes the configuration a constructed manager serves.
C17_OwnStepsKeepConfiguration ==
    [][(manager # <<>> /\ outcome'.op # "callerWrite") => config' = config]_vars

----------------------------------------------------------------------------
(* The static validators on CIDR blocks.                                   *)

\* the octet texts with one to three digits and a value in 0..255, and the
\* prefix texts with one or two digits and a value in 8..28
OctetTextsInRange == {"0", "1", "2", "5", "10", "010", "16", "168", "172", "192",
                      "255"}

PrefixTextsInRange == {"8", "08", "12", "16", "24", "28"}

\* the strings 'a.b.c.d/p' with every octet and the prefix in range
CidrsInRange ==
    {a \o "." \o b \o "." \o c \o "." \o d \o "/" \o p :
        a \in OctetTextsInRange, b \in OctetTextsInRange,
        c \in {"0", "1", "5", "255"}, d \in {"0", "255"},
        p \in PrefixTextsInRange}

\* C18: validateCidrBlock(cidr) is true exactly when cidr is a dotted quad
\* followed by '/prefix' with the prefix length in 8..28 and each octet in
\* 0..255, and false for every other string.
C18_ValidCidrBlock ==
    outcome.op = "validateCidrBlock"
    => /\ outcome.returned \in BOOLEAN
       /\ outcome.returned <=> outcome.cidr \in CidrsInRange

\* C18 witness: a dotted quad with octets in range and prefix length 29,
\* answered false
C18_Witness ==
    /\ outcome.op = "validateCidrBlock"
    /\ outcome.cidr = "10.1.0.0/29"
    /\ ~outcome.returned

\* the text of s before the n-th ch, all of s when it has fewer
Before(s, ch, n) ==
    LET at == {i \in 1..Len(s) : CharAt(s, i) = ch}
        stops == {i \in at : Cardinality({j \in at : j <= i}) = n}
    IN  IF stops = {} THEN s
        ELSE SubSeq(s, 1, (CHOOSE i \in stops : TRUE) - 1)

\* the first two octets of the address of a block, as written
FirstTwoOctets(cidr) == Before(Before(cidr, "/", 1), ".", 2)

\* C19: cidrBlocksOverlap(a, b) is true if and only if a and b are the same
\* string or their addresses have the same first two octets as written; it
\* is true for ('10.1.0.0/16', '10.1.5.0/24'), false for ('10.1.0.0/16',
\* '10.2.0.0/16'), and the same with the arguments exchanged.
C19_CidrBlocksOverlap ==
    outcome.op = "cidrBlocksOverlap"
    => /\ outcome.returned <=>
             \/ outcome.cidr1 = outcome.cidr2
             \/ FirstTwoOctets(outcome.cidr1) = FirstTwoOctets(outcome.cidr2)
       /\ outcome.returned = cidrBlocksOverlap(outcome.cidr2, outcome.cidr1)
       /\ (outcome.cidr1 = "10.1.0.0/16" /\ outcome.cidr2 = "10.1.5.0/24")
             => outcome.returned
       /\ (outcome.cidr1 = "10.1.0.0/16" /\ outcome.cidr2 = "10.2.0.0/16")
             => ~outcome.returned

\* C19 witness: two different blocks with the same first two octets,
\* answered true
C19_Witness ==
    /\ outcome.op = "cidrBlocksOverlap"
    /\ outcome.cidr1 = "10.1.0.0/16" /\ outcome.cidr2 = "10.1.5.0/24"
    /\ outcome.returned

----------------------------------------------------------------------------
(* The database configurations of accepted regions.                        *)

\* the rules of a DatabaseConfig: instance class pattern, storage and
\* retention ranges, and the version pattern for an engineVersion that is
\* present
DatabaseRulesHold(dbConfig) ==
    /\ DbInstanceRegexTest(dbConfig.instanceClass)
    /\ dbConfig.allocatedStorage \in MinAllocatedStorage..MaxAllocatedStorage
    /\ dbConfig.backupRetentionPeriod \in MinBackupRetention..MaxBackupRetention
    /\ dbConfig.engineVersion # <<>>
          => EngineVersionRegexTest(dbConfig.engineVersion[1])

\* C20: in every accepted configuration the iot and the payment database
\* of every region, whatever the region deploys, satisfy the rules of a
\* DatabaseConfig, an engineVersion present as the empty string included; a
\* configuration with a database breaking one is rejected.
C20_AcceptedDatabasesValid ==
    Accepted =>
        \A i \in EnvironmentIndexes :
            \A j \in 1..Len(RegionsOf(i)) :
                /\ DatabaseRulesHold(RegionsOf(i)[j].databaseConfig.iot)
                /\ DatabaseRulesHold(RegionsOf(i)[j].databaseConfig.payment)

\* C21: construction fails when crossRegionSettings.primaryRegion or
\* crossRegionSettings.paymentApiEndpoint is missing or empty, with the
\* error of the cross-region policy once the environments were found
\* present; in every accepted configuration both are non-empty strings.
PrimaryRegionUnset ==
    "primaryRegion" \notin DOMAIN Input.crossRegionSettings
    \/ Input.crossRegionSettings.primaryRegion = ""

EndpointUnset ==
    "paymentApiEndpoint" \notin DOMAIN Input.crossRegionSettings
    \/ Input.crossRegionSettings.paymentApiEndpoint = ""

Derived == outcome.op = "NetworkStack"

\* the subnets of the derived network, public then private
Subnets == outcome.stack.vpc.publicSubnets \o outcome.stack.vpc.privateSubnets

PrefixOf(cidr) == ParseInt(Split(cidr, "/")[2])

\* the /24 blocks an address block of prefix at most 24 covers, as the
\* numbers (first three octets) of its first and last one
BlocksOf(cidr) ==
    LET octets == Split(Split(cidr, "/")[1], ".")
        block == ParseInt(octets[1]) * 65536 + ParseInt(octets[2]) * 256
                 + ParseInt(octets[3])
        size == PowerOfTwo(24 - PrefixOf(cidr))
        first == (block \div size) * size
    IN  [first |-> first, last |-> first + size - 1]

Contains(outer, inner) ==
    /\ PrefixOf(outer) <= PrefixOf(inner)
    /\ BlocksOf(outer).first <= BlocksOf(inner).first
    /\ BlocksOf(inner).last <= BlocksOf(outer).last

Disjoint(a, b) ==
    BlocksOf(a).last < BlocksOf(b).first \/ BlocksOf(b).last < BlocksOf(a).first

\* C22: the derived network has exactly 4 subnets, 2 public and 2 private,
\* each a /24 block inside the region's cidrBlock, pairwise disjoint, over
\* exactly 2 availability zones however many zones there are.
C22_SubnetLayout ==
    Derived =>
        /\ Len(Subnets) = 4
        /\ Len(outcome.stack.vpc.publicSubnets) = 2
        /\ Len(outcome.stack.vpc.privateSubnets) = 2
        /\ \A i \in 1..2 :
              /\ outcome.stack.vpc.publicSubnets[i].subnetType = "PUBLIC"
              /\ outcome.stack.vpc.publicSubnets[i].mapPublicIpOnLaunch
              /\ outcome.stack.vpc.privateSubnets[i].subnetType
                   = "PRIVATE_WITH_EGRESS"
              /\ ~outcome.stack.vpc.privateSubnets[i].mapPublicIpOnLaunch
        /\ \A i \in 1..Len(Subnets) :
              /\ PrefixOf(Subnets[i].cidrBlock) = 24
              /\ Contains(outcome.props.cidrBlock, Subnets[i].cidrBlock)
        /\ \A i, j \in 1..Len(Subnets) :
              i # j => Disjoint(Subnets[i].cidrBlock, Subnets[j].cidrBlock)
        /\ Cardinality({Subnets[i].availabilityZone : i \in 1..Len(Subnets)}) = 2

\* C22: the /16 block 10.3.0.0/16 was carved into 10.3.0.0/24 to 10.3.3.0/24
\* in an environment of three zones
C22_Witness ==
    /\ Derived
    /\ outcome.props.cidrBlock = "10.3.0.0/16"
    /\ outcome.stackZones = 3
    /\ [i \in 1..Len(Subnets) |-> Subnets[i].cidrBlock]
         = <<"10.3.0.0/24", "10.3.1.0/24", "10.3.2.0/24", "10.3.3.0/24">>

\* the peer and port of every ingress rule of a group
IngressOf(group) ==
    {[peer |-> group.ingress[i].peer, port |-> group.ingress[i].port] :
        i \in 1..Len(group.ingress)}

\* the group lets all traffic out to anywhere
AllowsAllOut(group) ==
    /\ group.allowAllOutbound
    /\ \E i \in 1..Len(group.egress) :
          /\ group.egress[i].peer = "0.0.0.0/0"
          /\ group.egress[i].port = [protocol |-> "-1"]

\* C23: every derived network has exactly three security groups (web, app,
\* database); the database group has no default-allow outbound rule, the
\* web and app groups have one.
C23_SecurityGroups ==
    Derived =>
        LET groups == outcome.stack.securityGroups
        IN  /\ DOMAIN groups = {"web", "app", "database"}
            /\ Cardinality({groups[t].id : t \in DOMAIN groups}) = 3
            /\ AllowsAllOut(groups.web)
            /\ AllowsAllOut(groups.app)
            /\ ~groups.database.allowAllOutbound
            /\ groups.database.egress = <<>>

\* C23: a network was derived whose three groups are the web, app and
\* database groups of the VPC, the database one closed outbound
C23_Witness ==
    /\ Derived
    /\ outcome.stack.outputs.securityGroupIds
         = [web |-> "WebSecurityGroup", app |-> "AppSecurityGroup",
            database |-> "DatabaseSecurityGroup"]
    /\ \A t \in {"web", "app", "database"} :
          outcome.stack.securityGroups[t].vpc = "VPC"
    /\ ~AllowsAllOut(outcome.stack.securityGroups.database)
    /\ AllowsAllOut(outcome.stack.securityGroups.web)

\* C24: the ingress rules are exactly the fixed tier graph: web takes
\* 80/tcp and 443/tcp from anywhere; app takes 8080/tcp and 8443/tcp from
\* the web group, everything from itself, 8883/tcp and 443/tcp from
\* anywhere; database takes 3306/tcp and 6379/tcp from the app group and
\* everything from itself; nothing else, whatever the properties.
C24_IngressRules ==
    Derived =>
        LET groups == outcome.stack.securityGroups
            Port(n) == [protocol |-> "tcp", fromPort |-> n, toPort |-> n]
            All == [protocol |-> "-1"]
        IN  /\ IngressOf(groups.web)
                 = {[peer |-> "0.0.0.0/0", port |-> Port(80)],
                    [peer |-> "0.0.0.0/0", port |-> Port(443)]}
            /\ IngressOf(groups.app)
                 = {[peer |-> groups.web.id, port |-> Port(8080)],
                    [peer |-> groups.web.id, port |-> Port(8443)],
                    [peer |-> groups.app.id, port |-> All],
                    [peer |-> "0.0.0.0/0", port |-> Port(8883)],
                    [peer |-> "0.0.0.0/0", port |-> Port(443)]}
            /\ IngressOf(groups.database)
                 = {[peer |-> groups.app.id, port |-> Port(3306)],
                    [peer |-> groups.app.id, port |-> Port(6379)],
                    [peer |-> groups.database.id, port |-> All]}
            /\ Len(groups.web.ingress) = 2
            /\ Len(groups.app.ingress) = 5
            /\ Len(groups.database.ingress) = 3
            /\ \A r \in IngressOf(groups.database) :
                  r.peer \notin {groups.web.id, "0.0.0.0/0"}

\* C24: a production stack of eu-central-1 was derived, and its database
\* group takes MySQL from the app group
C24_Witness ==
    /\ Derived
    /\ outcome.props.environment = "production"
    /\ outcome.props.region = "eu-central-1"
    /\ [peer |-> "AppSecurityGroup",
        port |-> [protocol |-> "tcp", fromPort |-> 3306, toPort |-> 3306]]
         \in IngressOf(outcome.stack.securityGroups.database)

\* C25: a NetworkStack has a Transit Gateway, an attachment and Transit
\* Gateway routes if and only if enableTransitGateway is true; absent or
\* false gives none and no outputs.transitGatewayId; when built there is
\* one attachment over all private subnets and one route per private
\* subnet, to 10.0.0.0/8 through the gateway, depending on the attachment.
C25_TransitGateway ==
    Derived =>
        LET stack == outcome.stack
            private == stack.vpc.privateSubnets
        IN  IF outcome.props.enableTransitGateway = <<TRUE>>
            THEN /\ Len(stack.transitGateways) = 1
                 /\ stack.outputs.transitGatewayId = <<stack.transitGateways[1].id>>
                 /\ Len(stack.attachments) = 1
                 /\ stack.attachments[1].transitGatewayId
                      = stack.transitGateways[1].id
                 /\ stack.attachments[1].vpcId = stack.vpc.id
                 /\ stack.attachments[1].subnetIds
                      = [i \in 1..Len(private) |-> private[i].id]
                 /\ Len(stack.routes) = Len(private)
                 /\ \A i \in 1..Len(private) :
                       /\ stack.routes[i].routeTableId = private[i].routeTable
                       /\ stack.routes[i].destinationCidrBlock = "10.0.0.0/8"
                       /\ stack.routes[i].transitGatewayId
                            = stack.transitGateways[1].id
                       /\ stack.attachments[1].id
                            \in {stack.routes[i].dependsOn[k] :
                                    k \in 1..Len(stack.routes[i].dependsOn)}
            ELSE /\ stack.transitGateways = <<>>
                 /\ stack.attachments = <<>>
                 /\ stack.routes = <<>>
                 /\ stack.outputs.transitGatewayId = <<>>

\* C25: a stack was derived with the gateway, its attachment over both
\* private subnets and its two routes
C25_Witness ==
    /\ Derived
    /\ outcome.props.enableTransitGateway = <<TRUE>>
    /\ outcome.stack.attachments[1].subnetIds
         = <<"PrivateSubnet1", "PrivateSubnet2">>
    /\ [i \in 1..Len(outcome.stack.routes) |-> outcome.stack.routes[i].id]
         = <<"TGWRoute0", "TGWRoute1">>

\* C25: a stack was derived without the flag and has no gateway
C25_WitnessAbsent ==
    /\ Derived
    /\ outcome.props.enableTransitGateway = <<>>
    /\ outcome.stack.transitGateways = <<>>

\* text occurs in message
HasText(message, text) ==
    \E i \in 1..(Len(message) - Len(text) + 1) :
        SubSeq(message, i, i + Len(text) - 1) = text

\* the environments whose check raises the error construction threw
Offenders ==
    {i \in EnvironmentIndexes :
        validateEnvironmentConfiguration(Input.environments[i].name, Input)
          = outcome.threw}

\* C27: the error raised for a violated invariant carries the identifiers
\* of the offending field, region and environment: when the check of an
\* environment rejects the configuration, the error names that environment.
C27_ErrorsNameTheEnvironment ==
    Rejected /\ PresencePasses /\ CrossRegionPasses =>
        \E i \in Offenders : HasText(outcome.threw[1], Input.environments[i].name)

\* the entry point ran to its end
MainDone == outcome.op = "main" /\ outcome.threw = Ok

\* the indexes of the stacks of main that have a Transit Gateway
GatewayStacks ==
    {i \in 1..Len(outcome.stacks) : outcome.stacks[i].transitGateways # <<>>}

OverrideFields_At(name) ==
    LET entries == IF outcome.overrideConfig.environments = <<>> THEN <<>>
                   ELSE outcome.overrideConfig.environments[1]
        given == {i \in 1..Len(entries) :
                     entries[i].name = name /\ entries[i].value # <<>>}
    IN  IF given = {} THEN EmptyObject
        ELSE entries[CHOOSE i \in given : TRUE].value[1]

\* mergeConfigurations ran on the heap, returning or throwing
MergedObjects == outcome.op = "mergeConfigurationsAt"

\* C29: mergeConfigurations leaves both arguments unchanged: after the call,
\* returned or thrown, every object there was before it (the base, its
\* environments map, each of its environment objects, its
\* crossRegionSettings, the override and its parts) has the keys and values
\* it had, and the environments map and crossRegionSettings of the merged
\* object are not the objects of the base.
C29_ArgumentsUnchanged ==
    MergedObjects =>
        /\ Len(outcome.before) <= Len(outcome.heap)
        /\ \A ref \in 1..Len(outcome.before) : outcome.heap[ref] = outcome.before[ref]
        /\ ConfigAt(outcome.heap, outcome.base) = Input
        /\ outcome.heap[outcome.merged].environments
             # outcome.heap[outcome.base].environments
        /\ outcome.heap[outcome.merged].crossRegionSettings
             # outcome.heap[outcome.base].crossRegionSettings
        /\ outcome.merged > Len(outcome.before)
        /\ ConfigAt(outcome.heap, outcome.merged)
             = Merged(Input, outcome.overrideConfig)

\* C29: a merge returned whose override replaced a field of an environment
\* of the base and a setting; the base still has its own
C29_Witness ==
    /\ MergedObjects
    /\ outcome.returned # <<>>
    /\ DOMAIN OverrideFields_At("development") = {"regions"}
    /\ HasOwn(Input.environments, "development")
    /\ OwnValue(ConfigAt(outcome.heap, outcome.merged).environments,
                "development").regions
         # OwnValue(Input.environments, "development").regions
    /\ ConfigAt(outcome.heap, outcome.merged).crossRegionSettings
         # Input.crossRegionSettings
    /\ ConfigAt(outcome.heap, outcome.base) = Input

\* C29: a merge threw and the base is as it was
C29_WitnessThrown ==
    /\ MergedObjects
    /\ outcome.threw # Ok
    /\ outcome.overrideConfig.environments # <<>>
    /\ ConfigAt(outcome.heap, outcome.base) = Input

LoadDone == outcome.op = "loadFromFile"

\* the error of a configuration that has environments but no 'development'
DevelopmentNotFound ==
    <<"Current environment 'development' not found in configuration">>

\* the configuration the call (a load or a merge) validated
Validated ==
    IF LoadDone THEN outcome.file.config ELSE Merged(Input, outcome.override)

\* C30: mergeConfigurations and loadFromFile validate with 'development' as
\* the active environment: a configuration without a 'development'
\* environment makes them throw, also when it is valid for an environment
\* of its own.
C30_DevelopmentRequired ==
    (MergeDone \/ (LoadDone /\ outcome.file.kind = "json")) =>
        LET thrown == validateConfiguration("development", Validated)
        IN  /\ thrown = Ok <=> outcome.threw = Ok
            /\ ~HasOwn(Validated.environments, "development") =>
                  /\ outcome.threw # Ok
                  /\ outcome.returned = <<>>
                  /\ thrown = IF Len(Validated.environments) = 0
                              THEN <<"No environment configurations found">>
                              ELSE DevelopmentNotFound
                  /\ MergeDone => outcome.threw = thrown
                  /\ LoadDone =>
                        outcome.threw
                          = <<"Failed to load configuration from file "
                              \o outcome.filePath \o ": Error: " \o thrown[1]>>

\* C30: a file whose configuration declares production alone, and is valid
\* for production, failed to load for want of 'development'
C30_Witness ==
    /\ LoadDone
    /\ outcome.file.kind = "json"
    /\ ObjectKeys(outcome.file.config.environments) = <<"production">>
    /\ validateConfiguration("production", outcome.file.config) = Ok
    /\ outcome.threw
         = <<"Failed to load configuration from file config.json: Error: "
             \o "Current environment 'development' not found in configuration">>

\* C30: a merge on a base that declares production and test alone, valid
\* for production, threw for want of 'development'
C30_WitnessMerge ==
    /\ MergeDone
    /\ ObjectKeys(Input.environments) = <<"production", "test">>
    /\ validateConfiguration("production", Merged(Input, outcome.override)) = Ok
    /\ outcome.threw = DevelopmentNotFound

====
